---- MODULE Spec2Model ----
(***************************************************************************)
(* Compliance Sentinel (src/esg-monitor.py): the Streamlit session, the    *)
(* DeepSeek completion client, the demo responder and the usage           *)
(* accounting of render_analysis_result.                                  *)
(*                                                                         *)
(* Conventions                                                             *)
(*  - Python str is a TLA+ string; len, +, slicing and `in` are Len, \o,   *)
(*    SubSeq and Contains.  A code point outside the basic plane (the      *)
(*    emoji of the report headers) is written as one "?" per code point,   *)
(*    so that Len agrees with Python's len.                                *)
(*  - A Python dict is a record; dict.get(k, d) is Get(d_, k, d).          *)
(*  - None / a str credential is the record [isNone, s].                   *)
(*  - Money is an integer number of 1e-4 dollars (the resolution of        *)
(*    round(cost, 4)): 0.01 is 100.  Unrounded cost is an integer number   *)
(*    of 1e-8 dollars: tokens / 1_000_000 * 0.21 is tokens * 21.           *)
(*  - A raised exception is the record [exception, message].              *)
(***************************************************************************)
EXTENDS Integers, Sequences, FiniteSets, TLC

\* ----------------------------------------------------------------------
\* Bounds of the model
\* ----------------------------------------------------------------------

\* successful results recorded per session
MaxReports == 2

\* the token counts over which the cost is tabulated
MaxTokenCount == 300

\* ----------------------------------------------------------------------
\* Python values
\* ----------------------------------------------------------------------

\* None, where the code holds None or a str
None == [isNone |-> TRUE, s |-> ""]

\* a str credential
Key(k) == [isNone |-> FALSE, s |-> k]

IsNone(v) == "isNone" \in DOMAIN v /\ v.isNone

\* truth value of an Optional[str]: None and "" are falsy
Truthy(k) == ~k.isNone /\ k.s # ""

\* sep.join(list)
RECURSIVE Join(_, _)
Join(sep, list) ==
    IF list = << >> THEN ""
    ELSE IF Len(list) = 1 THEN list[1]
    ELSE list[1] \o sep \o Join(sep, Tail(list))

\* the empty dict {}
EmptyDict == [k \in {} |-> ""]

\* dict.get(k, default)
Get(d, k, default) == IF k \in DOMAIN d THEN d[k] ELSE default

\* sub in s
Contains(s, sub) ==
    \E i \in 1..(Len(s) - Len(sub) + 1) : SubSeq(s, i, i + Len(sub) - 1) = sub

\* s.startswith(p)
StartsWith(s, p) == Len(s) >= Len(p) /\ SubSeq(s, 1, Len(p)) = p

\* s[:n]
Prefix(s, n) == SubSeq(s, 1, IF Len(s) < n THEN Len(s) ELSE n)

\* index of the first occurrence of the character c in s at or after
\* position from (1-based), 0 when there is none
RECURSIVE IndexOf(_, _, _)
IndexOf(s, c, from) ==
    IF from > Len(s) THEN 0
    ELSE IF SubSeq(s, from, from) = c THEN from
    ELSE IndexOf(s, c, from + 1)

\* s.strip() for the blank characters of the inputs: space and newline
RECURSIVE Strip(_)
Strip(s) ==
    IF s = "" THEN s
    ELSE IF SubSeq(s, 1, 1) \in {" ", "\n"} THEN Strip(SubSeq(s, 2, Len(s)))
    ELSE IF SubSeq(s, Len(s), Len(s)) \in {" ", "\n"} THEN Strip(SubSeq(s, 1, Len(s) - 1))
    ELSE s

Upper26 == "ABCDEFGHIJKLMNOPQRSTUVWXYZ"
Lower26 == "abcdefghijklmnopqrstuvwxyz"

\* s.lower() on ASCII text
RECURSIVE Lower(_)
Lower(s) ==
    IF s = "" THEN s
    ELSE LET c == SubSeq(s, 1, 1)
             i == IndexOf(Upper26, c, 1)
         IN  (IF i = 0 THEN c ELSE SubSeq(Lower26, i, i)) \o Lower(SubSeq(s, 2, Len(s)))

\* a raised exception
Raise(exc, msg) == [exception |-> exc, message |-> msg]
IsException(r) == "exception" \in DOMAIN r

\* a text of n characters
RECURSIVE Filler(_)
Filler(n) ==
    IF n = 0 THEN ""
    ELSE IF n % 2 = 1 THEN "." \o Filler(n - 1)
    ELSE LET h == Filler(n \div 2) IN h \o h

\* hashlib.md5(s.encode()).hexdigest()[:6].upper(): six upper-case hex
\* digits that are a function of s.  The digest itself is not computed; the
\* stand-in keeps the width and the dependence on s only.
HexDigits == "0123456789ABCDEF"
Md5Hex6(s) ==
    LET d(k) == SubSeq(HexDigits, ((Len(s) * k) % 16) + 1, ((Len(s) * k) % 16) + 1)
    IN  d(1) \o d(3) \o d(5) \o d(7) \o d(11) \o d(13)

\* ----------------------------------------------------------------------
\* datetime.now(): a clock reading with the renderings the program takes
\* ----------------------------------------------------------------------

\* isoformat() / strftime('%Y-%m-%d %H:%M:%S') / strftime('%Y-%m-%d') /
\* strftime('%Y%m%d') / (now + timedelta(days=365)).strftime('%Y-%m-%d')
Clock == {
    [iso |-> "2025-03-01T09:15:42.120000", stamp |-> "2025-03-01 09:15:42",
     day |-> "2025-03-01", compact |-> "20250301", nextYear |-> "2026-03-01"],
    [iso |-> "2025-12-31T23:59:59.000001", stamp |-> "2025-12-31 23:59:59",
     day |-> "2025-12-31", compact |-> "20251231", nextYear |-> "2026-12-31"] }

\* ----------------------------------------------------------------------
\* Fixed texts of DeepSeekClient
\* ----------------------------------------------------------------------

\* prompts["incident"], 464 characters
SystemPrompt_incident ==
    "You are a Senior HSE (Health, Safety & Environment) Consultant with 15+ years of experience.\n"
    \o "\n"
    \o "Provide a comprehensive incident analysis with this structure:\n"
    \o "\n"
    \o "# INCIDENT ANALYSIS REPORT\n"
    \o "## 1. EXECUTIVE SUMMARY\n"
    \o "## 2. INCIDENT DETAILS\n"
    \o "## 3. ROOT CAUSE ANALYSIS (5 Whys)\n"
    \o "## 4. REGULATORY IMPLICATIONS\n"
    \o "## 5. RISK ASSESSMENT\n"
    \o "## 6. RECOMMENDATIONS (P1/P2/P3)\n"
    \o "## 7. COST-BENEFIT ANALYSIS\n"
    \o "## 8. LESSONS LEARNED\n"
    \o "\n"
    \o "Use professional language with specific regulatory citations."

\* prompts["audit"], 487 characters
SystemPrompt_audit ==
    "You are an ISO Lead Auditor with expertise in ISO 9001, 14001, 45001, and 27001.\n"
    \o "\n"
    \o "Provide a comprehensive audit report with this structure:\n"
    \o "\n"
    \o "# COMPLIANCE AUDIT REPORT\n"
    \o "## 1. EXECUTIVE SUMMARY\n"
    \o "## 2. AUDIT SCOPE & OBJECTIVES\n"
    \o "## 3. METHODOLOGY\n"
    \o "## 4. FINDINGS SUMMARY\n"
    \o "## 5. DETAILED FINDINGS (by standard clause)\n"
    \o "## 6. NON-CONFORMITIES (Major/Minor/Observations)\n"
    \o "## 7. CORRECTIVE ACTION PLAN\n"
    \o "## 8. RECOMMENDATIONS\n"
    \o "## 9. FOLLOW-UP SCHEDULE\n"
    \o "\n"
    \o "Use ISO audit terminology and cite specific clauses."

\* prompts["policy"], 420 characters
SystemPrompt_policy ==
    "You are a Policy & Compliance Director with expertise in regulatory compliance.\n"
    \o "\n"
    \o "Provide a comprehensive policy review with this structure:\n"
    \o "\n"
    \o "# POLICY REVIEW REPORT\n"
    \o "## 1. EXECUTIVE SUMMARY\n"
    \o "## 2. POLICY OVERVIEW\n"
    \o "## 3. REGULATORY ALIGNMENT ANALYSIS\n"
    \o "## 4. GAP ANALYSIS\n"
    \o "## 5. BEST PRACTICES COMPARISON\n"
    \o "## 6. RECOMMENDATIONS\n"
    \o "## 7. IMPLEMENTATION ROADMAP\n"
    \o "## 8. REVIEW SCHEDULE\n"
    \o "\n"
    \o "Cite specific regulations and industry standards."

\* prompts["esg"], 468 characters
SystemPrompt_esg ==
    "You are an ESG (Environmental, Social, Governance) Director with expertise in GRI, SASB, and TCFD frameworks.\n"
    \o "\n"
    \o "Provide a comprehensive ESG assessment with this structure:\n"
    \o "\n"
    \o "# ESG PERFORMANCE ASSESSMENT\n"
    \o "## 1. EXECUTIVE SUMMARY\n"
    \o "## 2. ENVIRONMENTAL PERFORMANCE\n"
    \o "## 3. SOCIAL PERFORMANCE\n"
    \o "## 4. GOVERNANCE PERFORMANCE\n"
    \o "## 5. MATERIALITY ASSESSMENT\n"
    \o "## 6. BENCHMARKING & SCORING\n"
    \o "## 7. RECOMMENDATIONS\n"
    \o "## 8. REPORTING ALIGNMENT\n"
    \o "\n"
    \o "Use recognized ESG frameworks and provide scoring."

\* _generate_incident_demo: literal text of lines 414-418, 58 characters
IncidentDemoLit1 ==
    "# ?? INCIDENT ANALYSIS REPORT\n"
    \o "\n"
    \o "## 1. EXECUTIVE SUMMARY\n"
    \o "\n"
    \o "A "

\* _generate_incident_demo: literal text of lines 418-418, 31 characters
IncidentDemoLit2 ==
    " severity incident occurred at "

\* _generate_incident_demo: literal text of lines 418-418, 2 characters
IncidentDemoLit3 ==
    ". "

\* _generate_incident_demo: literal text of lines 418-429, 236 characters
IncidentDemoLit4 ==
    "\n"
    \o "\n"
    \o "**Key Findings:**\n"
    \o "- Root Cause: Procedural gap in safety protocols\n"
    \o "- Risk Level: HIGH\n"
    \o "- Immediate Action Required: Yes\n"
    \o "- Estimated Implementation Cost: $22,500\n"
    \o "- Projected Annual Savings: $120,000\n"
    \o "\n"
    \o "## 2. INCIDENT DETAILS\n"
    \o "\n"
    \o "- **Date:** "

\* _generate_incident_demo: literal text of lines 429-430, 13 characters
IncidentDemoLit5 ==
    "\n"
    \o "- **Time:** "

\* _generate_incident_demo: literal text of lines 430-431, 17 characters
IncidentDemoLit6 ==
    "\n"
    \o "- **Location:** "

\* _generate_incident_demo: literal text of lines 431-432, 17 characters
IncidentDemoLit7 ==
    "\n"
    \o "- **Severity:** "

\* _generate_incident_demo: literal text of lines 432-433, 20 characters
IncidentDemoLit8 ==
    "\n"
    \o "- **Reported By:** "

\* _generate_incident_demo: literal text of lines 433-434, 18 characters
IncidentDemoLit9 ==
    "\n"
    \o "- **Witnesses:** "

\* _generate_incident_demo: literal text of lines 434-459, 730 characters
IncidentDemoLit10_1 ==
    "\n"
    \o "\n"
    \o "## 3. ROOT CAUSE ANALYSIS (5 Whys)\n"
    \o "\n"
    \o "1. **Why did the incident occur?** → Hazardous condition present\n"
    \o "2. **Why was hazard present?** → Maintenance backlog\n"
    \o "3. **Why was there backlog?** → Inadequate prioritization\n"
    \o "4. **Why inadequate prioritization?** → Missing procedures\n"
    \o "5. **Why no procedures?** → **ROOT CAUSE: Systematic gap in safety management**\n"
    \o "\n"
    \o "## 4. REGULATORY IMPLICATIONS\n"
    \o "\n"
    \o "**OSHA 1910.22(a)(1)** - Walking-Working Surfaces\n"
    \o "- Status: Potential non-compliance\n"
    \o "- Citation Risk: High\n"
    \o "- Penalty: $7,000-$14,000\n"
    \o "\n"
    \o "**ISO 45001:2018** - OH&S Management\n"
    \o "- Clause 8.1.2: Gap in hazard elimination\n"
    \o "- Clause 6.1.2.3: Risk assessment needs update\n"
    \o "\n"
    \o "## 5. RISK ASSESSMENT\n"
    \o "\n"
    \o "- **Likelihood:** 4/5 (Probable)\n"
    \o "- **Severity:** 4/5 (Major)\n"

\* _generate_incident_demo: literal text of lines 459-484, 616 characters
IncidentDemoLit10_2 ==
    "- **Risk Score:** 16/25 (HIGH RISK)\n"
    \o "\n"
    \o "## 6. RECOMMENDATIONS\n"
    \o "\n"
    \o "### Priority 1 - Immediate (0-24h) - $1,500\n"
    \o "1. Physical containment and barriers\n"
    \o "2. Emergency cleanup/remediation\n"
    \o "3. Safety alert distribution\n"
    \o "\n"
    \o "### Priority 2 - Short-term (1-7 days) - $9,500\n"
    \o "4. Safety audit and inspection\n"
    \o "5. Interim control measures\n"
    \o "6. Training program deployment\n"
    \o "7. Procedure review and update\n"
    \o "\n"
    \o "### Priority 3 - Long-term (1-3 months) - $11,500\n"
    \o "8. Engineering controls installation\n"
    \o "9. Management system enhancement\n"
    \o "10. Safety culture program\n"
    \o "\n"
    \o "**Total Investment: $22,500**\n"
    \o "\n"
    \o "## 7. COST-BENEFIT ANALYSIS\n"
    \o "\n"
    \o "**Implementation Costs:** $22,500\n"

\* _generate_incident_demo: literal text of lines 484-504, 493 characters
IncidentDemoLit10_3 ==
    "\n"
    \o "**Annual Savings:**\n"
    \o "- Avoided injuries: $35,000\n"
    \o "- Prevented damage: $25,000\n"
    \o "- Avoided penalties: $10,000\n"
    \o "- Reduced insurance: $12,000\n"
    \o "- Efficiency gains: $18,000\n"
    \o "- Reduced downtime: $10,000\n"
    \o "- **Total: $120,000**\n"
    \o "\n"
    \o "**ROI:** 433% | **Payback:** 2.25 months\n"
    \o "\n"
    \o "## 8. LESSONS LEARNED\n"
    \o "\n"
    \o "1. Procedural gaps have real consequences\n"
    \o "2. Early intervention is cost-effective\n"
    \o "3. Communication is critical\n"
    \o "4. Proactive risk assessment essential\n"
    \o "5. Training is an investment, not a cost\n"
    \o "\n"
    \o "**Report Generated:** "

\* _generate_incident_demo: the literal text of lines 434-504, 1839 characters
IncidentDemoLit10 ==
    IncidentDemoLit10_1 \o IncidentDemoLit10_2 \o IncidentDemoLit10_3

\* _generate_incident_demo: literal text of lines 504-505, 20 characters
IncidentDemoLit11 ==
    "\n"
    \o "**Report ID:** INC-"

\* _generate_incident_demo: literal text of lines 505-505, 1 characters
IncidentDemoLit12 ==
    "-"

\* _generate_incident_demo: literal text of lines 505-506, 1 characters
IncidentDemoLit13 ==
    "\n"

\* _generate_audit_demo: literal text of lines 513-517, 87 characters
AuditDemoLit1 ==
    "# ? COMPLIANCE AUDIT REPORT\n"
    \o "\n"
    \o "## 1. EXECUTIVE SUMMARY\n"
    \o "\n"
    \o "Compliance audit conducted for **"

\* _generate_audit_demo: literal text of lines 517-517, 13 characters
AuditDemoLit2 ==
    "** against **"

\* _generate_audit_demo: the literal text of lines 517-530 is 300 characters long; it holds no
\* interpolation, and is kept here by its length only
AuditDemoLit3 ==
    Filler(300)

\* _generate_audit_demo: literal text of lines 530-531, 24 characters
AuditDemoLit4 ==
    "\n"
    \o "**Standards Audited:** "

\* _generate_audit_demo: literal text of lines 531-532, 17 characters
AuditDemoLit5 ==
    "\n"
    \o "**Audit Type:** "

\* _generate_audit_demo: literal text of lines 532-533, 11 characters
AuditDemoLit6 ==
    "\n"
    \o "**Date:** "

\* _generate_audit_demo: the literal text of lines 533-543 is 286 characters long; it holds no
\* interpolation, and is kept here by its length only
AuditDemoLit7 ==
    Filler(286)

\* _generate_audit_demo: the literal text of lines 543-736 is 6188 characters long; it holds no
\* interpolation, and is kept here by its length only
AuditDemoLit8 ==
    Filler(6188)

\* _generate_audit_demo: literal text of lines 736-737, 20 characters
AuditDemoLit9 ==
    "\n"
    \o "**Report ID:** AUD-"

\* _generate_audit_demo: literal text of lines 737-737, 1 characters
AuditDemoLit10 ==
    "-"

\* _generate_audit_demo: literal text of lines 737-739, 69 characters
AuditDemoLit11 ==
    "\n"
    \o "**Lead Auditor:** Compliance Sentinel AI System\n"
    \o "**Audit Standard:** "

\* _generate_audit_demo: literal text of lines 739-740, 1 characters
AuditDemoLit12 ==
    "\n"

\* _generate_policy_demo: literal text of lines 747-751, 77 characters
PolicyDemoLit1 ==
    "# ? POLICY REVIEW REPORT\n"
    \o "\n"
    \o "## 1. EXECUTIVE SUMMARY\n"
    \o "\n"
    \o "Comprehensive review of **"

\* _generate_policy_demo: literal text of lines 751-751, 4 characters
PolicyDemoLit2 ==
    "** ("

\* _generate_policy_demo: the literal text of lines 751-768 is 464 characters long; it holds no
\* interpolation, and is kept here by its length only
PolicyDemoLit3 ==
    Filler(464)

\* _generate_policy_demo: literal text of lines 768-769, 18 characters
PolicyDemoLit4 ==
    "\n"
    \o "**Policy Type:** "

\* _generate_policy_demo: literal text of lines 769-770, 15 characters
PolicyDemoLit5 ==
    "\n"
    \o "**Industry:** "

\* _generate_policy_demo: literal text of lines 770-771, 19 characters
PolicyDemoLit6 ==
    "\n"
    \o "**Jurisdiction:** "

\* _generate_policy_demo: literal text of lines 771-772, 22 characters
PolicyDemoLit7 ==
    "\n"
    \o "**Current Version:** "

\* _generate_policy_demo: literal text of lines 772-773, 19 characters
PolicyDemoLit8 ==
    "\n"
    \o "**Last Updated:** "

\* _generate_policy_demo: literal text of lines 773-774, 18 characters
PolicyDemoLit9 ==
    "\n"
    \o "**Review Date:** "

\* _generate_policy_demo: the literal text of lines 774-780 is 230 characters long; it holds no
\* interpolation, and is kept here by its length only
PolicyDemoLit10 ==
    Filler(230)

\* _generate_policy_demo: the literal text of lines 780-1035 is 7325 characters long; it holds no
\* interpolation, and is kept here by its length only
PolicyDemoLit11 ==
    Filler(7325)

\* _generate_policy_demo: the literal text of lines 1035-1043 is 193 characters long; it holds no
\* interpolation, and is kept here by its length only
PolicyDemoLit12 ==
    Filler(193)

\* _generate_policy_demo: the literal text of lines 1043-1061 is 407 characters long; it holds no
\* interpolation, and is kept here by its length only
PolicyDemoLit13 ==
    Filler(407)

\* _generate_policy_demo: the literal text of lines 1061-1097 is 1135 characters long; it holds no
\* interpolation, and is kept here by its length only
PolicyDemoLit14 ==
    Filler(1135)

\* _generate_policy_demo: literal text of lines 1097-1098, 20 characters
PolicyDemoLit15 ==
    "\n"
    \o "**Report ID:** POL-"

\* _generate_policy_demo: literal text of lines 1098-1098, 1 characters
PolicyDemoLit16 ==
    "-"

\* _generate_policy_demo: literal text of lines 1098-1100, 45 characters
PolicyDemoLit17 ==
    "\n"
    \o "**Reviewer:** Compliance Sentinel AI System\n"

\* _generate_esg_demo: literal text of lines 1107-1111, 88 characters
EsgDemoLit1 ==
    "# ? ESG PERFORMANCE ASSESSMENT\n"
    \o "\n"
    \o "## 1. EXECUTIVE SUMMARY\n"
    \o "\n"
    \o "ESG assessment conducted for **"

\* _generate_esg_demo: literal text of lines 1111-1111, 12 characters
EsgDemoLit2 ==
    "** in the **"

\* _generate_esg_demo: the literal text of lines 1111-1582 is 12593 characters long; it holds no
\* interpolation, and is kept here by its length only
EsgDemoLit3 ==
    Filler(12593)

\* _generate_esg_demo: the literal text of lines 1582-1613 is 1000 characters long; it holds no
\* interpolation, and is kept here by its length only
EsgDemoLit4 ==
    Filler(1000)

\* _generate_esg_demo: literal text of lines 1613-1614, 20 characters
EsgDemoLit5 ==
    "\n"
    \o "**Report ID:** ESG-"

\* _generate_esg_demo: literal text of lines 1614-1614, 1 characters
EsgDemoLit6 ==
    "-"

\* _generate_esg_demo: literal text of lines 1614-1616, 75 characters
EsgDemoLit7 ==
    "\n"
    \o "**Assessment Framework:** GRI, TCFD, SASB, MSCI ESG\n"
    \o "**Reporting Period:** "

\* _generate_esg_demo: literal text of lines 1616-1617, 22 characters
EsgDemoLit8 ==
    "\n"
    \o "**Industry Sector:** "

\* _generate_esg_demo: literal text of lines 1617-1618, 1 characters
EsgDemoLit9 ==
    "\n"

\* ----------------------------------------------------------------------
\* DeepSeekClient: prompt builder
\* ----------------------------------------------------------------------

\* DeepSeekClient.get_system_prompt: prompts.get(prompt_type, prompts["incident"])
GetSystemPrompt(prompt_type) ==
    CASE prompt_type = "incident" -> SystemPrompt_incident
      [] prompt_type = "audit"    -> SystemPrompt_audit
      [] prompt_type = "policy"   -> SystemPrompt_policy
      [] prompt_type = "esg"      -> SystemPrompt_esg
      [] OTHER                    -> SystemPrompt_incident

\* get_user_prompt with the last detail of each template reading the key of
\* the line before it
GetUserPrompt_RepeatedKey(prompt_type, data) ==
    CASE prompt_type = "incident" ->
            "INCIDENT ANALYSIS REQUEST\n"
            \o "\n"
            \o "**Incident Description:** " \o Get(data, "description", "N/A") \o "\n"
            \o "\n"
            \o "**Details:**\n"
            \o "- Severity: " \o Get(data, "severity", "N/A") \o "\n"
            \o "- Location: " \o Get(data, "location", "N/A") \o "\n"
            \o "- Date: " \o Get(data, "date", "N/A") \o "\n"
            \o "- Time: " \o Get(data, "date", "N/A") \o "\n"
            \o "\n"
            \o "Provide comprehensive analysis."
      [] prompt_type = "audit" ->
            "COMPLIANCE AUDIT REQUEST\n"
            \o "\n"
            \o "**Organization:** " \o Get(data, "organization", "N/A") \o "\n"
            \o "**Standards:** " \o Get(data, "standards", "N/A") \o "\n"
            \o "**Scope:** " \o Get(data, "scope", "N/A") \o "\n"
            \o "**Areas Reviewed:** " \o Get(data, "areas", "N/A") \o "\n"
            \o "**Findings:** " \o Get(data, "areas", "N/A") \o "\n"
            \o "\n"
            \o "Provide comprehensive audit report."
      [] prompt_type = "policy" ->
            "POLICY REVIEW REQUEST\n"
            \o "\n"
            \o "**Policy Name:** " \o Get(data, "policy_name", "N/A") \o "\n"
            \o "**Policy Type:** " \o Get(data, "policy_type", "N/A") \o "\n"
            \o "**Industry:** " \o Get(data, "industry", "N/A") \o "\n"
            \o "**Jurisdiction:** " \o Get(data, "industry", "N/A") \o "\n"
            \o "\n"
            \o "**Policy Content:**\n"
            \o Get(data, "content", "N/A") \o "\n"
            \o "\n"
            \o "Provide comprehensive review."
      [] prompt_type = "esg" ->
            "ESG ASSESSMENT REQUEST\n"
            \o "\n"
            \o "**Organization:** " \o Get(data, "organization", "N/A") \o "\n"
            \o "**Industry:** " \o Get(data, "industry", "N/A") \o "\n"
            \o "**Reporting Period:** " \o Get(data, "period", "N/A") \o "\n"
            \o "**Framework:** " \o Get(data, "framework", "N/A") \o "\n"
            \o "\n"
            \o "**Environmental Data:** " \o Get(data, "environmental", "N/A") \o "\n"
            \o "**Social Data:** " \o Get(data, "social", "N/A") \o "\n"
            \o "**Governance Data:** " \o Get(data, "social", "N/A") \o "\n"
            \o "\n"
            \o "Provide comprehensive ESG assessment."
      [] OTHER -> "Please analyze this data."

\* DeepSeekClient.get_user_prompt
GetUserPrompt(prompt_type, data) ==
    CASE prompt_type = "incident" ->
            "INCIDENT ANALYSIS REQUEST\n"
            \o "\n"
            \o "**Incident Description:** " \o Get(data, "description", "N/A") \o "\n"
            \o "\n"
            \o "**Details:**\n"
            \o "- Severity: " \o Get(data, "severity", "N/A") \o "\n"
            \o "- Location: " \o Get(data, "location", "N/A") \o "\n"
            \o "- Date: " \o Get(data, "date", "N/A") \o "\n"
            \o "- Time: " \o Get(data, "time", "N/A") \o "\n"
            \o "\n"
            \o "Provide comprehensive analysis."
      [] prompt_type = "audit" ->
            "COMPLIANCE AUDIT REQUEST\n"
            \o "\n"
            \o "**Organization:** " \o Get(data, "organization", "N/A") \o "\n"
            \o "**Standards:** " \o Get(data, "standards", "N/A") \o "\n"
            \o "**Scope:** " \o Get(data, "scope", "N/A") \o "\n"
            \o "**Areas Reviewed:** " \o Get(data, "areas", "N/A") \o "\n"
            \o "**Findings:** " \o Get(data, "findings", "N/A") \o "\n"
            \o "\n"
            \o "Provide comprehensive audit report."
      [] prompt_type = "policy" ->
            "POLICY REVIEW REQUEST\n"
            \o "\n"
            \o "**Policy Name:** " \o Get(data, "policy_name", "N/A") \o "\n"
            \o "**Policy Type:** " \o Get(data, "policy_type", "N/A") \o "\n"
            \o "**Industry:** " \o Get(data, "industry", "N/A") \o "\n"
            \o "**Jurisdiction:** " \o Get(data, "jurisdiction", "N/A") \o "\n"
            \o "\n"
            \o "**Policy Content:**\n"
            \o Get(data, "content", "N/A") \o "\n"
            \o "\n"
            \o "Provide comprehensive review."
      [] prompt_type = "esg" ->
            "ESG ASSESSMENT REQUEST\n"
            \o "\n"
            \o "**Organization:** " \o Get(data, "organization", "N/A") \o "\n"
            \o "**Industry:** " \o Get(data, "industry", "N/A") \o "\n"
            \o "**Reporting Period:** " \o Get(data, "period", "N/A") \o "\n"
            \o "**Framework:** " \o Get(data, "framework", "N/A") \o "\n"
            \o "\n"
            \o "**Environmental Data:** " \o Get(data, "environmental", "N/A") \o "\n"
            \o "**Social Data:** " \o Get(data, "social", "N/A") \o "\n"
            \o "**Governance Data:** " \o Get(data, "governance", "N/A") \o "\n"
            \o "\n"
            \o "Provide comprehensive ESG assessment."
      [] OTHER -> "Please analyze this data."

\* ----------------------------------------------------------------------
\* DeepSeekClient: demo responder
\* ----------------------------------------------------------------------

\* severity.split('-')[1].strip().lower(): the text between the first and
\* the second '-'; IndexError when severity holds no '-'.  A text result is
\* the record [text]
SeverityWord(severity) ==
    LET i == IndexOf(severity, "-", 1)
        j == IndexOf(severity, "-", i + 1)
    IN  IF i = 0 THEN Raise("IndexError", "list index out of range")
        ELSE [text |-> Lower(Strip(SubSeq(severity, i + 1,
                                          IF j = 0 THEN Len(severity) ELSE j - 1)))]

\* DeepSeekClient._generate_incident_demo
GenerateIncidentDemo(data, now) ==
    LET description == Get(data, "description", "workplace incident")
        severity    == Get(data, "severity", "3 - Serious")
        location    == Get(data, "location", "Facility")
        word        == SeverityWord(severity)
    IN  IF IsException(word) THEN word
        ELSE [text |->
             IncidentDemoLit1 \o word.text
          \o IncidentDemoLit2 \o location
          \o IncidentDemoLit3 \o Prefix(description, 200)
          \o IncidentDemoLit4 \o Get(data, "date", "N/A")
          \o IncidentDemoLit5 \o Get(data, "time", "N/A")
          \o IncidentDemoLit6 \o location
          \o IncidentDemoLit7 \o severity
          \o IncidentDemoLit8 \o Get(data, "reported_by", "Site personnel")
          \o IncidentDemoLit9 \o Get(data, "witnesses", "None listed")
          \o IncidentDemoLit10 \o now.stamp
          \o IncidentDemoLit11 \o now.compact
          \o IncidentDemoLit12 \o Md5Hex6(description)
          \o IncidentDemoLit13]

\* DeepSeekClient._generate_audit_demo
GenerateAuditDemo(data, now) ==
    LET org       == Get(data, "organization", "Organization")
        standards == Get(data, "standards", "ISO 45001:2018")
    IN  [text |->
        AuditDemoLit1 \o org
     \o AuditDemoLit2 \o standards
     \o AuditDemoLit3 \o org
     \o AuditDemoLit4 \o standards
     \o AuditDemoLit5 \o Get(data, "scope", "Full System Audit")
     \o AuditDemoLit6 \o now.day
     \o AuditDemoLit7 \o Get(data, "areas", "All operational areas")
     \o AuditDemoLit8 \o now.stamp
     \o AuditDemoLit9 \o now.compact
     \o AuditDemoLit10 \o Md5Hex6(org)
     \o AuditDemoLit11 \o standards
     \o AuditDemoLit12]

\* DeepSeekClient._generate_policy_demo
GeneratePolicyDemo(data, now) ==
    LET policy_name == Get(data, "policy_name", "Safety Policy")
        policy_type == Get(data, "policy_type", "Health & Safety")
    IN  [text |->
        PolicyDemoLit1 \o policy_name
     \o PolicyDemoLit2 \o policy_type
     \o PolicyDemoLit3 \o policy_name
     \o PolicyDemoLit4 \o policy_type
     \o PolicyDemoLit5 \o Get(data, "industry", "Manufacturing")
     \o PolicyDemoLit6 \o Get(data, "jurisdiction", "United States")
     \o PolicyDemoLit7 \o Get(data, "version", "2.1")
     \o PolicyDemoLit8 \o Get(data, "last_updated", "2023-01-15")
     \o PolicyDemoLit9 \o now.day
     \o PolicyDemoLit10 \o Get(data, "owner", "HSE Director")
     \o PolicyDemoLit11 \o now.nextYear
     \o PolicyDemoLit12 \o now.day
     \o PolicyDemoLit13 \o policy_name
     \o PolicyDemoLit14 \o now.stamp
     \o PolicyDemoLit15 \o now.compact
     \o PolicyDemoLit16 \o Md5Hex6(policy_name)
     \o PolicyDemoLit17]

\* DeepSeekClient._generate_esg_demo
GenerateEsgDemo(data, now) ==
    LET org      == Get(data, "organization", "Organization")
        industry == Get(data, "industry", "Manufacturing")
    IN  [text |->
        EsgDemoLit1 \o org
     \o EsgDemoLit2 \o industry
     \o EsgDemoLit3 \o org
     \o EsgDemoLit4 \o now.stamp
     \o EsgDemoLit5 \o now.compact
     \o EsgDemoLit6 \o Md5Hex6(org)
     \o EsgDemoLit7 \o Get(data, "period", "FY 2024")
     \o EsgDemoLit8 \o industry
     \o EsgDemoLit9]

\* the fixed cost of a demo result: 0.01 dollars
DemoCost == 100

\* get_demo_response reporting a token count written in the code
GetDemoResponse_FixedTokens(prompt_type, data, now) ==
    LET report ==
            CASE prompt_type = "incident" -> GenerateIncidentDemo(data, now)
              [] prompt_type = "audit"    -> GenerateAuditDemo(data, now)
              [] prompt_type = "policy"   -> GeneratePolicyDemo(data, now)
              [] prompt_type = "esg"      -> GenerateEsgDemo(data, now)
              [] OTHER -> [text |-> "# Analysis Report\n\nDemo report generated."]
    IN  IF IsException(report) THEN report
        ELSE [success     |-> TRUE,
              analysis    |-> report.text,
              tokens_used |-> 850,
              cost        |-> DemoCost,
              model       |-> "deepseek-chat-demo",
              timestamp   |-> now.iso]

\* get_demo_response charging nothing for a demo report
GetDemoResponse_Free(prompt_type, data, now) ==
    LET report ==
            CASE prompt_type = "incident" -> GenerateIncidentDemo(data, now)
              [] prompt_type = "audit"    -> GenerateAuditDemo(data, now)
              [] prompt_type = "policy"   -> GeneratePolicyDemo(data, now)
              [] prompt_type = "esg"      -> GenerateEsgDemo(data, now)
              [] OTHER -> [text |-> "# Analysis Report\n\nDemo report generated."]
    IN  IF IsException(report) THEN report
        ELSE [success     |-> TRUE,
              analysis    |-> report.text,
              tokens_used |-> Len(report.text) \div 4,
              cost        |-> 0,
              model       |-> "deepseek-chat-demo",
              timestamp   |-> now.iso]

\* DeepSeekClient.get_demo_response
GetDemoResponse(prompt_type, data, now) ==
    LET report ==
            CASE prompt_type = "incident" -> GenerateIncidentDemo(data, now)
              [] prompt_type = "audit"    -> GenerateAuditDemo(data, now)
              [] prompt_type = "policy"   -> GeneratePolicyDemo(data, now)
              [] prompt_type = "esg"      -> GenerateEsgDemo(data, now)
              [] OTHER -> [text |-> "# Analysis Report\n\nDemo report generated."]
    IN  IF IsException(report) THEN report
        ELSE [success     |-> TRUE,
              analysis    |-> report.text,
              tokens_used |-> Len(report.text) \div 4,
              cost        |-> DemoCost,
              model       |-> "deepseek-chat-demo",
              timestamp   |-> now.iso]

\* ----------------------------------------------------------------------
\* DeepSeekClient: remote path
\* ----------------------------------------------------------------------

\* self.base_url and self.timeout of DeepSeekClient.__init__
BaseUrl == "https://api.deepseek.com"
Timeout == 60

\* price of a million tokens, in hundredths of a dollar: 0.21
PricePerMillion == 21

\* the cost at 0.14 dollars a million tokens
RawCost_OtherPrice(tokens) == tokens * 14

\* (tokens / 1_000_000) * 0.21, in 1e-8 dollars
RawCost(tokens) == tokens * PricePerMillion

\* the values of (tokens / 1_000_000) * 0.21 halfway between two multiples of
\* 1e-4 that round(cost, 4) takes down, because the double that holds the
\* product lies below the halfway point: tokens 5000, 15000, 55000 and
\* 95000, in 1e-8 dollars (the halfway values of up to 100000 tokens)
HalfwayRoundedDown == { 105000, 315000, 1155000, 1995000 }

\* round(cost, 4) taking every fraction of 1e-4 dollars up
Round4_Ceiling(raw) == (raw + 9999) \div 10000

\* round(cost, 4): from 1e-8 dollars to the nearest 1e-4 dollars.  A value
\* halfway between two multiples of 1e-4 (tokens = 5000, 15000, ...) rounds
\* by the binary representation of the product
Round4(raw) ==
    IF raw \in HalfwayRoundedDown THEN raw \div 10000 ELSE (raw + 5000) \div 10000

\* the arguments of requests.post in DeepSeekClient.analyze
\* the request with the user message before the system message
PostRequest_UserFirst(api_key, prompt_type, data, settings_) ==
    [url     |-> BaseUrl \o "/chat/completions",
     headers |-> [Authorization |-> "Bearer " \o api_key.s,
                  ContentType   |-> "application/json"],
     json    |-> [model       |-> "deepseek-chat",
                  messages    |-> << [role |-> "user", content |-> GetUserPrompt(prompt_type, data)],
                                     [role |-> "system", content |-> GetSystemPrompt(prompt_type)] >>,
                  max_tokens  |-> Get(settings_, "max_tokens", 2000),
                  temperature |-> Get(settings_, "temperature", 1)],
     timeout |-> Timeout]

PostRequest(api_key, prompt_type, data, settings_) ==
    [url     |-> BaseUrl \o "/chat/completions",
     headers |-> [Authorization |-> "Bearer " \o api_key.s,
                  ContentType   |-> "application/json"],
     json    |-> [model       |-> "deepseek-chat",
                  messages    |-> << [role |-> "system", content |-> GetSystemPrompt(prompt_type)],
                                     [role |-> "user", content |-> GetUserPrompt(prompt_type, data)] >>,
                  max_tokens  |-> Get(settings_, "max_tokens", 2000),
                  temperature |-> Get(settings_, "temperature", 1)],
     timeout |-> Timeout]

\* JSON null and a JSON string where the code expects an object
JsonNull == [json_null |-> TRUE]
JsonString(s) == [json_string |-> s]
IsObject(v) == "json_null" \notin DOMAIN v /\ "json_string" \notin DOMAIN v

\* the failure record of the three error branches of analyze
Failure(text) ==
    [success     |-> FALSE,
     analysis    |-> text,
     tokens_used |-> 0,
     cost        |-> 0,
     model       |-> "deepseek-chat"]

\* response.json()
ResponseJson(body) ==
    IF body.valid THEN body.json ELSE Raise("JSONDecodeError", body.err)

\* the status_code == 200 branch reading prompt_tokens for the token count
OnSuccessStatus_PromptTokens(body, now) ==
    LET result == ResponseJson(body)
    IN  IF IsException(result) THEN result
        ELSE IF "choices" \notin DOMAIN result THEN Raise("KeyError", "'choices'")
        ELSE IF result.choices = << >> THEN Raise("IndexError", "list index out of range")
        ELSE IF "message" \notin DOMAIN result.choices[1] THEN Raise("KeyError", "'message'")
        ELSE IF "content" \notin DOMAIN result.choices[1].message THEN Raise("KeyError", "'content'")
        ELSE LET analysis == result.choices[1].message.content
                 usage    == Get(result, "usage", EmptyDict)
             IN  IF ~IsObject(usage)
                 THEN Raise("AttributeError", "'NoneType' object has no attribute 'get'")
                 ELSE LET tokens == Get(usage, "prompt_tokens", Len(analysis) \div 4)
                          cost   == RawCost(tokens)
                      IN  [success     |-> TRUE,
                           analysis    |-> analysis,
                           tokens_used |-> tokens,
                           cost        |-> Round4(cost),
                           model       |-> Get(result, "model", "deepseek-chat"),
                           timestamp   |-> now.iso]

\* the status_code == 200 branch of analyze
OnSuccessStatus(body, now) ==
    LET result == ResponseJson(body)
    IN  IF IsException(result) THEN result
        ELSE IF "choices" \notin DOMAIN result THEN Raise("KeyError", "'choices'")
        ELSE IF result.choices = << >> THEN Raise("IndexError", "list index out of range")
        ELSE IF "message" \notin DOMAIN result.choices[1] THEN Raise("KeyError", "'message'")
        ELSE IF "content" \notin DOMAIN result.choices[1].message THEN Raise("KeyError", "'content'")
        ELSE LET analysis == result.choices[1].message.content
                 usage    == Get(result, "usage", EmptyDict)
             IN  IF ~IsObject(usage)
                 THEN Raise("AttributeError", "'NoneType' object has no attribute 'get'")
                 ELSE LET tokens == Get(usage, "total_tokens", Len(analysis) \div 4)
                          cost   == RawCost(tokens)
                      IN  [success     |-> TRUE,
                           analysis    |-> analysis,
                           tokens_used |-> tokens,
                           cost        |-> Round4(cost),
                           model       |-> Get(result, "model", "deepseek-chat"),
                           timestamp   |-> now.iso]

\* the else branch (status_code != 200) of analyze
OnErrorStatus(status_code, body) ==
    LET error_data == IF body.text # "" THEN ResponseJson(body) ELSE EmptyDict
    IN  IF IsException(error_data) THEN error_data
        ELSE LET error == Get(error_data, "error", EmptyDict)
             IN  IF ~IsObject(error)
                 THEN Raise("AttributeError", "'str' object has no attribute 'get'")
                 ELSE LET error_msg == Get(error, "message", "HTTP " \o ToString(status_code))
                      IN  Failure("API Error: " \o error_msg)

\* the except clauses with Exception alone
OnException_GenericOnly(e) == Failure("Error: " \o e.message)

\* the except clauses of analyze: requests.exceptions.Timeout first, then
\* Exception
OnException(e) ==
    IF e.exception \in {"Timeout", "ConnectTimeout", "ReadTimeout"}
    THEN Failure("Request timed out. Please try again.")
    ELSE Failure("Error: " \o e.message)

\* the try block of analyze once requests.post has returned or raised:
\* net is the outcome of the POST
OnOutcome(net, now) ==
    IF net.kind = "raise" THEN OnException(net.exc)
    ELSE LET r == IF net.status_code = 200
                  THEN OnSuccessStatus(net.body, now)
                  ELSE OnErrorStatus(net.status_code, net.body)
         IN  IF IsException(r) THEN OnException(r) ELSE r

\* analyze with the demo test reduced to the sentinel: an absent credential
\* goes to the endpoint
Analyze_SentinelOnly(api_key, prompt_type, data, settings_, net, now) ==
    IF ~api_key.isNone /\ api_key.s = "demo"
    THEN [ret |-> GetDemoResponse(prompt_type, data, now), posts |-> << >>]
    ELSE [ret   |-> OnOutcome(net, now),
          posts |-> << PostRequest(api_key, prompt_type, data, settings_) >>]

\* analyze posting a second time when the first request failed
Analyze_RetryOnFailure(api_key, prompt_type, data, settings_, net, now) ==
    IF ~Truthy(api_key) \/ api_key.s = "demo"
    THEN [ret |-> GetDemoResponse(prompt_type, data, now), posts |-> << >>]
    ELSE LET r == OnOutcome(net, now)
             p == PostRequest(api_key, prompt_type, data, settings_)
         IN  [ret |-> r, posts |-> IF r.success THEN << p >> ELSE << p, p >>]

\* DeepSeekClient.analyze.  ret is the returned dict, or the exception that
\* leaves analyze; posts are the requests handed to requests.post
Analyze(api_key, prompt_type, data, settings_, net, now) ==
    IF ~Truthy(api_key) \/ api_key.s = "demo"
    THEN [ret |-> GetDemoResponse(prompt_type, data, now), posts |-> << >>]
    ELSE [ret   |-> OnOutcome(net, now),
          posts |-> << PostRequest(api_key, prompt_type, data, settings_) >>]

\* ----------------------------------------------------------------------
\* Session state and the widgets of the page
\* ----------------------------------------------------------------------

VARIABLES
    session_state,   \* st.session_state
    widgets,         \* the sidebar's radio and selectbox: [mode, analysis_type]
    result,          \* what the last call of the client returned, None before
    last             \* the last script run or client call: what was asked,
                     \* with which arguments, and the POSTs it issued

vars == << session_state, widgets, result, last >>

DemoModeLabel == "? Demo Mode (Free)"
ApiModeLabel  == "? API Mode (Live)"
AnalysisTypeLabels ==
    { "? Incident Investigation", "? Compliance Audit",
      "? Policy Review", "? ESG Assessment" }

\* the defaults of init_session_state
Defaults ==
    [api_key          |-> None,
     analysis_history |-> << >>,
     usage_stats      |-> [total_reports |-> 0, total_cost |-> 0, total_tokens |-> 0],
     demo_mode        |-> TRUE,
     current_analysis |-> None,
     settings         |-> [temperature |-> 1, max_tokens |-> 2000]]

\* init_session_state storing every default, whether the key is there or not
InitSessionState_Overwrite(ss) ==
    [key \in (DOMAIN Defaults) \cup (DOMAIN ss) |->
        IF key \in DOMAIN Defaults THEN Defaults[key] ELSE ss[key]]

\* init_session_state: a default is stored only for a key that is absent
InitSessionState(ss) ==
    [key \in (DOMAIN Defaults) \cup (DOMAIN ss) |->
        IF key \in DOMAIN ss THEN ss[key] ELSE Defaults[key]]

\* the sliders of "Advanced Settings" exist in API mode only: they keep
\* their value from one run in API mode to the next, and start from
\* value=0.1 / value=2000 when the previous run did not show them
SliderValues(ss) ==
    IF ss.demo_mode THEN [temperature |-> 1, max_tokens |-> 2000] ELSE ss.settings

\* render_sidebar storing whatever the API key field holds, an emptied field
\* included
RenderSidebar_StoresEmptied(ss, mode, typed, sliders) ==
    LET demo == (mode = DemoModeLabel)
        s1   == [ss EXCEPT !.demo_mode = demo]
        s2   == IF ~demo /\ Key(typed) # s1.api_key
                THEN [s1 EXCEPT !.api_key = Key(typed)]
                ELSE s1
    IN  IF s2.demo_mode = FALSE
        THEN [s2 EXCEPT !.settings = [temperature |-> sliders.temperature,
                                      max_tokens  |-> sliders.max_tokens]]
        ELSE s2

\* render_sidebar: typed is the content of the API key field, sliders the
\* values of the two sliders
RenderSidebar(ss, mode, typed, sliders) ==
    LET demo == (mode = DemoModeLabel)
        s1   == [ss EXCEPT !.demo_mode = demo]
        s2   == IF ~demo /\ typed # "" /\ Key(typed) # s1.api_key
                THEN [s1 EXCEPT !.api_key = Key(typed)]
                ELSE s1
    IN  IF s2.demo_mode = FALSE
        THEN [s2 EXCEPT !.settings = [temperature |-> sliders.temperature,
                                      max_tokens  |-> sliders.max_tokens]]
        ELSE s2

\* the forms submitting without looking for a credential
MissingCredential_Unchecked(ss) == FALSE

\* the check every form makes first on submit
MissingCredential(ss) == ~ss.demo_mode /\ ~Truthy(ss.api_key)

\* render_incident_form without the check of the description
RenderIncidentForm_NoDescriptionCheck(ss, button, w) ==
    IF button = "preview" THEN [preview |-> TRUE]
    ELSE IF button = "submit" THEN
        IF MissingCredential(ss) THEN None
        ELSE IF w.location = "" THEN None
        ELSE [type        |-> "incident",
              description |-> w.description,
              severity    |-> w.severity,
              location    |-> w.location,
              date        |-> w.date,
              time        |-> w.time,
              reported_by |-> w.reported_by,
              witnesses   |-> w.witnesses]
    ELSE None

\* render_incident_form: button is "none", "submit" or "preview"; w holds
\* the values of the form's widgets
RenderIncidentForm(ss, button, w) ==
    IF button = "preview" THEN [preview |-> TRUE]
    ELSE IF button = "submit" THEN
        IF MissingCredential(ss) THEN None
        ELSE IF w.description = "" \/ Len(Strip(w.description)) < 20 THEN None
        ELSE IF w.location = "" THEN None
        ELSE [type        |-> "incident",
              description |-> w.description,
              severity    |-> w.severity,
              location    |-> w.location,
              date        |-> w.date,
              time        |-> w.time,
              reported_by |-> w.reported_by,
              witnesses   |-> w.witnesses]
    ELSE None

\* render_audit_form
RenderAuditForm(ss, button, w) ==
    IF button = "preview" THEN [preview |-> TRUE]
    ELSE IF button = "submit" THEN
        IF MissingCredential(ss) THEN None
        ELSE IF w.organization = "" THEN None
        ELSE [type         |-> "audit",
              organization |-> w.organization,
              standards    |-> IF w.standards # << >> THEN Join(", ", w.standards)
                               ELSE "ISO 45001:2018",
              scope        |-> w.scope,
              areas        |-> IF w.areas # "" THEN w.areas ELSE "All operational areas",
              findings     |-> IF w.findings # "" THEN w.findings
                               ELSE "General audit observations"]
    ELSE None

\* render_policy_form
RenderPolicyForm(ss, button, w) ==
    IF button = "preview" THEN [preview |-> TRUE]
    ELSE IF button = "submit" THEN
        IF MissingCredential(ss) THEN None
        ELSE IF w.policy_name = "" THEN None
        ELSE IF w.content = "" \/ Len(Strip(w.content)) < 50 THEN None
        ELSE [type         |-> "policy",
              policy_name  |-> w.policy_name,
              policy_type  |-> w.policy_type,
              industry     |-> IF w.industry # "" THEN w.industry ELSE "General",
              jurisdiction |-> IF w.jurisdiction # "" THEN w.jurisdiction ELSE "United States",
              version      |-> w.version,
              last_updated |-> w.last_updated,
              content      |-> w.content]
    ELSE None

\* render_esg_form
RenderEsgForm(ss, button, w) ==
    IF button = "preview" THEN [preview |-> TRUE]
    ELSE IF button = "submit" THEN
        IF MissingCredential(ss) THEN None
        ELSE IF w.organization = "" THEN None
        ELSE [type          |-> "esg",
              organization  |-> w.organization,
              industry      |-> w.industry,
              period        |-> IF w.period # "" THEN w.period ELSE "FY 2024",
              framework     |-> IF w.framework # << >> THEN Join(", ", w.framework)
                                ELSE "GRI Standards",
              environmental |-> IF w.environmental # "" THEN w.environmental
                                ELSE "Basic environmental data",
              social        |-> IF w.social # "" THEN w.social ELSE "Basic social data",
              governance    |-> IF w.governance # "" THEN w.governance
                                ELSE "Basic governance data"]
    ELSE None

\* render_analysis_result storing the cost of the result instead of adding it
RenderAnalysisResult_CostAssigned(ss, res, input_data, now) ==
    IF ~Get(res, "success", FALSE) THEN ss
    ELSE [ss EXCEPT
            !.usage_stats =
                [total_reports |-> @.total_reports + 1,
                 total_cost    |-> Get(res, "cost", 0),
                 total_tokens  |-> @.total_tokens + Get(res, "tokens_used", 0)],
            !.analysis_history =
                Append(@, [timestamp |-> now.iso,
                           type      |-> Get(input_data, "type", "unknown"),
                           cost      |-> Get(res, "cost", 0),
                           tokens    |-> Get(res, "tokens_used", 0),
                           model     |-> Get(res, "model", "N/A")])]

\* render_analysis_result without the early return on a failed result
RenderAnalysisResult_NoEarlyReturn(ss, res, input_data, now) ==
    [ss EXCEPT
        !.usage_stats =
            [total_reports |-> @.total_reports + 1,
             total_cost    |-> @.total_cost + Get(res, "cost", 0),
             total_tokens  |-> @.total_tokens + Get(res, "tokens_used", 0)],
        !.analysis_history =
            Append(@, [timestamp |-> now.iso,
                       type      |-> Get(input_data, "type", "unknown"),
                       cost      |-> Get(res, "cost", 0),
                       tokens    |-> Get(res, "tokens_used", 0),
                       model     |-> Get(res, "model", "N/A")])]

\* render_analysis_result: the session state after rendering result for
\* input_data.  A failed result is reported and nothing is recorded
RenderAnalysisResult(ss, res, input_data, now) ==
    IF ~Get(res, "success", FALSE) THEN ss
    ELSE [ss EXCEPT
            !.usage_stats =
                [total_reports |-> @.total_reports + 1,
                 total_cost    |-> @.total_cost + Get(res, "cost", 0),
                 total_tokens  |-> @.total_tokens + Get(res, "tokens_used", 0)],
            !.analysis_history =
                Append(@, [timestamp |-> now.iso,
                           type      |-> Get(input_data, "type", "unknown"),
                           cost      |-> Get(res, "cost", 0),
                           tokens    |-> Get(res, "tokens_used", 0),
                           model     |-> Get(res, "model", "N/A")])]

\* the routing of main: the form and the prompt type of an analysis type
PromptTypeOf(analysis_type) ==
    IF Contains(analysis_type, "Incident") THEN "incident"
    ELSE IF Contains(analysis_type, "Audit") THEN "audit"
    ELSE IF Contains(analysis_type, "Policy") THEN "policy"
    ELSE IF Contains(analysis_type, "ESG") THEN "esg"
    ELSE "incident"

RenderForm(analysis_type, ss, button, w) ==
    IF Contains(analysis_type, "Incident") THEN RenderIncidentForm(ss, button, w)
    ELSE IF Contains(analysis_type, "Audit") THEN RenderAuditForm(ss, button, w)
    ELSE IF Contains(analysis_type, "Policy") THEN RenderPolicyForm(ss, button, w)
    ELSE IF Contains(analysis_type, "ESG") THEN RenderEsgForm(ss, button, w)
    ELSE None

\* no POST was issued
NoNet == [kind |-> "none"]

\* what a script run or a client call leaves in `last`
Call(op, api_key, prompt_type, data, net, posts) ==
    [op |-> op, api_key |-> api_key, prompt_type |-> prompt_type,
     data |-> data, net |-> net, posts |-> posts]

\* the credential main builds the client with
ClientKey(ss) == IF ~ss.demo_mode THEN ss.api_key ELSE Key("demo")

\* main, once a form has returned its data: build the client, analyze, and
\* render the result.  An exception that leaves analyze ends the run
ProcessSubmission(ss, prompt_type, form_data, net, now) ==
    LET api_key == ClientKey(ss)
        a       == Analyze(api_key, prompt_type, form_data, ss.settings, net, now)
    IN  [ss     |-> IF IsException(a.ret) THEN ss
                    ELSE RenderAnalysisResult(ss, a.ret, form_data, now),
         result |-> a.ret,
         last   |-> Call("analyze", api_key, prompt_type, form_data,
                         IF a.posts = << >> THEN NoNet ELSE net, a.posts)]

\* main handling the preview button like the submit button
Main_PreviewProcessed(ss0, w_mode, w_type, typed, sliders, button, w, net, now) ==
    LET ss1         == InitSessionState(ss0)
        ss2         == RenderSidebar(ss1, w_mode, typed, sliders)
        prompt_type == PromptTypeOf(w_type)
        form_data   == RenderForm(w_type, ss2, button, w)
    IN  IF IsNone(form_data) THEN
            [ss   |-> ss2, result |-> None,
             last |-> Call(IF button = "submit" THEN "rejected" ELSE "rerun",
                           None, prompt_type, EmptyDict, NoNet, << >>)]
        ELSE LET m == ProcessSubmission(ss2, prompt_type, form_data, net, now)
             IN  IF Get(form_data, "preview", FALSE)
                 THEN [m EXCEPT !.last.op = "preview"]
                 ELSE m

\* main: one run of the script.  w_mode and w_type are the values of the
\* radio and of the selectbox, typed and sliders those of the API key
\* field and of the sliders, button the form button that was pressed and w
\* the form's widgets; net is what requests.post does if it is called and
\* now the clock.  The run yields the session state, the result and the
\* record of the run
Main(ss0, w_mode, w_type, typed, sliders, button, w, net, now) ==
    LET ss1         == InitSessionState(ss0)
        ss2         == RenderSidebar(ss1, w_mode, typed, sliders)
        prompt_type == PromptTypeOf(w_type)
        form_data   == RenderForm(w_type, ss2, button, w)
    IN  IF IsNone(form_data) THEN
            [ss   |-> ss2, result |-> None,
             last |-> Call(IF button = "submit" THEN "rejected" ELSE "rerun",
                           None, prompt_type, EmptyDict, NoNet, << >>)]
        ELSE IF Get(form_data, "preview", FALSE) THEN
            [ss   |-> ss2, result |-> GetDemoResponse(prompt_type, form_data, now),
             last |-> Call("preview", Key("demo"), prompt_type, form_data, NoNet, << >>)]
        ELSE ProcessSubmission(ss2, prompt_type, form_data, net, now)

\* ----------------------------------------------------------------------
\* Inputs: what the user enters and what the endpoint answers
\* ----------------------------------------------------------------------

\* contents of the API key field
KeyInputs == { "", "sk-4f9a1c", "demo" }

\* values of the two sliders (temperature in tenths)
SliderInputs ==
    { [temperature |-> 1, max_tokens |-> 2000], [temperature |-> 7, max_tokens |-> 500] }

IncidentWidgets ==
    [description : { "", "  Oil spill at dock 4  ", "Worker slipped on oil patch" },
     severity    : { "3 - Serious (Days Away)" },
     location    : { "", "Plant B" },
     date        : { "2025-02-27" },
     time        : { "14:05" },
     reported_by : { "" },
     witnesses   : { "" }]

AuditWidgets ==
    [organization : { "", "Acme Manufacturing Inc." },
     standards    : { << "ISO 9001:2015 (Quality)", "ISO 45001:2018 (OH&S)" >> },
     scope        : { "Surveillance Audit" },
     areas        : { "" },
     findings     : { "" }]

PolicyWidgets ==
    [policy_name  : { "", "Workplace Safety Policy" },
     policy_type  : { "Health & Safety" },
     industry     : { "" },
     jurisdiction : { "" },
     version      : { "2.1" },
     last_updated : { "2024-03-01" },
     content      : { "PPE is mandatory.",
                      "All staff must wear PPE on the production floor at all times." }]

EsgWidgets ==
    [organization  : { "", "Acme Industries" },
     industry      : { "Manufacturing" },
     period        : { "" },
     framework     : { << >> },
     environmental : { "Scope 1 emissions down 4%" },
     social        : { "" },
     governance    : { "" }]

FormWidgets(analysis_type) ==
    CASE PromptTypeOf(analysis_type) = "incident" -> IncidentWidgets
      [] PromptTypeOf(analysis_type) = "audit"    -> AuditWidgets
      [] PromptTypeOf(analysis_type) = "policy"   -> PolicyWidgets
      [] PromptTypeOf(analysis_type) = "esg"      -> EsgWidgets

\* an HTTP response body: its text and what response.json() makes of it
Body(text, json) == [text |-> text, valid |-> TRUE, json |-> json, err |-> ""]
BadBody(text) ==
    [text |-> text, valid |-> FALSE, json |-> EmptyDict,
     err |-> "Expecting value: line 1 column 1 (char 0)"]

Response(status_code, body) == [kind |-> "response", status_code |-> status_code, body |-> body]
Raises(exc, msg) == [kind |-> "raise", exc |-> Raise(exc, msg)]

Content1 == "# INCIDENT ANALYSIS REPORT\n## 1. EXECUTIVE SUMMARY\nGuarding was missing."
Choices(c) == << [message |-> [role |-> "assistant", content |-> c]] >>

BodyFull ==
    Body("{\"model\":\"deepseek-chat-v3\",\"choices\":[{\"message\":{\"role\":\"assistant\",\"content\":\"...\"}}],\"usage\":{\"prompt_tokens\":310,\"total_tokens\":1200}}",
         [model |-> "deepseek-chat-v3", choices |-> Choices(Content1),
          usage |-> [prompt_tokens |-> 310, total_tokens |-> 1200]])
BodySmallUsage ==
    Body("{\"choices\":[{\"message\":{\"role\":\"assistant\",\"content\":\"...\"}}],\"usage\":{\"total_tokens\":238}}",
         [choices |-> Choices(Content1), usage |-> [total_tokens |-> 238]])
BodyHalfwayUsage ==
    Body("{\"choices\":[{\"message\":{\"role\":\"assistant\",\"content\":\"...\"}}],\"usage\":{\"total_tokens\":15000}}",
         [choices |-> Choices(Content1), usage |-> [total_tokens |-> 15000]])
BodyNoUsage ==
    Body("{\"model\":\"deepseek-chat-v3\",\"choices\":[{\"message\":{\"role\":\"assistant\",\"content\":\"...\"}}]}",
         [model |-> "deepseek-chat-v3", choices |-> Choices(Content1)])
BodyUsageNoTotal ==
    Body("{\"choices\":[{\"message\":{\"role\":\"assistant\",\"content\":\"...\"}}],\"usage\":{\"prompt_tokens\":310}}",
         [choices |-> Choices(Content1), usage |-> [prompt_tokens |-> 310]])
BodyUsageNull ==
    Body("{\"choices\":[{\"message\":{\"role\":\"assistant\",\"content\":\"...\"}}],\"usage\":null}",
         [choices |-> Choices(Content1), usage |-> JsonNull])
BodyNoChoices == Body("{\"id\":\"cmpl-1\"}", [id |-> "cmpl-1"])
BodyEmptyChoices == Body("{\"choices\":[]}", [choices |-> << >>])
BodyErrorMessage ==
    Body("{\"error\":{\"message\":\"Authentication Fails, Your api key is invalid\",\"type\":\"authentication_error\"}}",
         [error |-> [message |-> "Authentication Fails, Your api key is invalid",
                     type |-> "authentication_error"]])
BodyErrorNoMessage ==
    Body("{\"error\":{\"type\":\"server_error\"}}", [error |-> [type |-> "server_error"]])
BodyErrorString ==
    Body("{\"error\":\"unauthorized\"}", [error |-> JsonString("unauthorized")])
BodyDetail == Body("{\"detail\":\"Rate limit reached\"}", [detail |-> "Rate limit reached"])
BodyHtml == BadBody("<html>502 Bad Gateway</html>")
BodyEmpty == BadBody("")

Bodies ==
    { BodyFull, BodySmallUsage, BodyHalfwayUsage, BodyNoUsage, BodyUsageNoTotal, BodyUsageNull,
      BodyNoChoices, BodyEmptyChoices, BodyErrorMessage, BodyErrorNoMessage,
      BodyErrorString, BodyDetail, BodyHtml, BodyEmpty }

StatusCodes == { 200, 401, 429, 500 }

PostRaises ==
    { Raises("ReadTimeout", "HTTPSConnectionPool(host='api.deepseek.com', port=443): Read timed out. (read timeout=60)"),
      Raises("ConnectTimeout", "Connection to api.deepseek.com timed out. (connect timeout=60)"),
      Raises("ConnectionError", "Connection aborted."),
      Raises("SSLError", "certificate verify failed") }

\* everything requests.post may do, for the calls of the client taken alone
ClientNet == { Response(s, b) : s \in StatusCodes, b \in Bodies } \cup PostRaises

\* what requests.post does in the runs of the page
AppNet ==
    { Response(200, BodyFull), Response(200, BodyNoChoices),
      Response(401, BodyErrorMessage), Response(500, BodyEmpty),
      Raises("ReadTimeout", "HTTPSConnectionPool(host='api.deepseek.com', port=443): Read timed out. (read timeout=60)"),
      Raises("ConnectionError", "Connection aborted.") }

\* the clock of the runs of the page
AppClock == { CHOOSE c \in Clock : c.day = "2025-03-01" }

\* ----------------------------------------------------------------------
\* The page: every action is a user event followed by one run of main
\* ----------------------------------------------------------------------

Init ==
    /\ session_state = InitSessionState(EmptyDict)
    /\ widgets = [mode |-> DemoModeLabel, analysis_type |-> "? Incident Investigation"]
    /\ result = None
    /\ last = Call("rerun", None, "incident", EmptyDict, NoNet, << >>)

\* value=st.session_state.api_key or "": the API key field as the page shows it
KeyField(ss) == IF Truthy(ss.api_key) THEN ss.api_key.s ELSE ""

\* a run without a pressed button that renders, and records, the result of
\* the submission before it once more
Run_RerunRendersAgain(w_mode, w_type, typed, sliders, button, w, net, now) ==
    \E m \in { Main(session_state, w_mode, w_type, typed, sliders, button, w, net, now) } :
        /\ session_state' =
                IF m.last.op = "rerun" /\ last.op = "analyze" /\ ~IsException(result)
                THEN RenderAnalysisResult(m.ss, result, last.data, now)
                ELSE m.ss
        /\ widgets' = [mode |-> w_mode, analysis_type |-> w_type]
        /\ result' = m.result
        /\ last' = m.last

\* a run that answers a submission equal to the last one from the result it
\* still holds, without calling the client
Run_ReusesResult(w_mode, w_type, typed, sliders, button, w, net, now) ==
    \E m \in { Main(session_state, w_mode, w_type, typed, sliders, button, w, net, now) } :
        IF /\ m.last.op = "analyze" /\ last.op = "analyze"
           /\ m.last.data = last.data /\ m.last.api_key = last.api_key
           /\ m.last.prompt_type = last.prompt_type
        THEN /\ session_state' = session_state
             /\ widgets' = [mode |-> w_mode, analysis_type |-> w_type]
             /\ result' = result
             /\ last' = [last EXCEPT !.posts = << >>, !.net = NoNet]
        ELSE /\ session_state' = m.ss
             /\ widgets' = [mode |-> w_mode, analysis_type |-> w_type]
             /\ result' = m.result
             /\ last' = m.last

Run(w_mode, w_type, typed, sliders, button, w, net, now) ==
    \E m \in { Main(session_state, w_mode, w_type, typed, sliders, button, w, net, now) } :
        /\ session_state' = m.ss
        /\ widgets' = [mode |-> w_mode, analysis_type |-> w_type]
        /\ result' = m.result
        /\ last' = m.last

\* the user picks the other operating mode
SelectMode ==
    \E m \in { DemoModeLabel, ApiModeLabel } \ { widgets.mode } : \E now \in AppClock :
        Run(m, widgets.analysis_type, KeyField(session_state),
            SliderValues(session_state), "none", EmptyDict, NoNet, now)

\* the user edits the API key field (shown in API mode only)
EnterApiKey ==
    /\ widgets.mode = ApiModeLabel
    /\ \E k \in KeyInputs : \E now \in AppClock :
        Run(widgets.mode, widgets.analysis_type, k,
            SliderValues(session_state), "none", EmptyDict, NoNet, now)

\* the user picks another analysis type
SelectAnalysisType ==
    \E t \in AnalysisTypeLabels \ { widgets.analysis_type } : \E now \in AppClock :
        Run(widgets.mode, t, KeyField(session_state),
            SliderValues(session_state), "none", EmptyDict, NoNet, now)

\* the user moves a slider (shown in API mode only)
ChangeSettings ==
    /\ widgets.mode = ApiModeLabel
    /\ \E s \in SliderInputs \ { SliderValues(session_state) } : \E now \in AppClock :
        Run(widgets.mode, widgets.analysis_type, KeyField(session_state),
            s, "none", EmptyDict, NoNet, now)

\* the user presses "Preview Sample"
PreviewSample ==
    /\ widgets.analysis_type \in AnalysisTypeLabels
    /\ \E now \in AppClock :
        Run(widgets.mode, widgets.analysis_type, KeyField(session_state),
            SliderValues(session_state), "preview", EmptyDict, NoNet, now)

\* the user fills the form and presses the submit button
GenerateAnalysis ==
    /\ session_state.usage_stats.total_reports < MaxReports
    /\ \E w \in FormWidgets(widgets.analysis_type) : \E net \in AppNet : \E now \in AppClock :
        Run(widgets.mode, widgets.analysis_type, KeyField(session_state),
            SliderValues(session_state), "submit", w, net, now)

Next ==
    \/ SelectMode
    \/ EnterApiKey
    \/ SelectAnalysisType
    \/ ChangeSettings
    \/ PreviewSample
    \/ GenerateAnalysis

Spec == Init /\ [][Next]_vars

\* ----------------------------------------------------------------------
\* The client taken alone: analyze and get_demo_response called with any
\* credential, prompt type, data and outcome of the POST, and the
\* processing of one submission by main, in a session the page can be in
\* ----------------------------------------------------------------------

\* sessions of the page before any report: with and without a stored key,
\* in either mode
ClientInit ==
    /\ \E k \in { None, Key("sk-4f9a1c") } : \E dm \in BOOLEAN :
        /\ session_state = [InitSessionState(EmptyDict) EXCEPT !.api_key = k, !.demo_mode = dm]
        /\ widgets = [mode |-> IF dm THEN DemoModeLabel ELSE ApiModeLabel,
                      analysis_type |-> "? Incident Investigation"]
    /\ result = None
    /\ last = Call("rerun", None, "incident", EmptyDict, NoNet, << >>)

Credentials == { None, Key(""), Key("demo"), Key("sk-4f9a1c") }

PromptTypes == { "incident", "audit", "policy", "esg", "summary" }

ClientData ==
    { EmptyDict,
      [preview |-> TRUE],
      [description |-> "Worker slipped on oil patch", severity |-> "3 - Serious",
       location |-> "Plant B"],
      [type |-> "incident", description |-> "Forklift struck racking in aisle 7",
       severity |-> "High", location |-> "Warehouse"],
      [type |-> "audit", organization |-> "Acme Manufacturing Inc.",
       standards |-> "ISO 45001:2018 (OH&S)", scope |-> "Full System Audit",
       areas |-> "Production", findings |-> ""],
      [type |-> "incident", description |-> "Chemical splash while decanting solvent",
       severity |-> "2 - Moderate (Medical Treatment)", location |-> "Lab 2",
       date |-> "2025-02-27", time |-> "14:05",
       reported_by |-> "J. Smith", witnesses |-> "A. Jones"] }

\* a client that has not been called yet
Fresh == last.op = "rerun"

CallAnalyze ==
    /\ Fresh
    /\ \E k \in Credentials : \E t \in PromptTypes : \E d \in ClientData :
       \E net \in ClientNet : \E now \in Clock :
       \E a \in { Analyze(k, t, d, session_state.settings, net, now) } :
        /\ result' = a.ret
        /\ last' = Call("call_analyze", k, t, d, IF a.posts = << >> THEN NoNet ELSE net, a.posts)
        /\ UNCHANGED << session_state, widgets >>

CallGetDemoResponse ==
    /\ Fresh
    /\ \E t \in PromptTypes : \E d \in ClientData : \E now \in Clock :
        /\ result' = GetDemoResponse(t, d, now)
        /\ last' = Call("call_get_demo_response", Key("demo"), t, d, NoNet, << >>)
        /\ UNCHANGED << session_state, widgets >>

CallProcessSubmission ==
    /\ Fresh
    /\ \E t \in PromptTypes : \E d \in ClientData :
       \E net \in ClientNet : \E now \in Clock :
       \E m \in { ProcessSubmission(session_state, t, d, net, now) } :
        /\ session_state' = m.ss
        /\ result' = m.result
        /\ last' = m.last
        /\ UNCHANGED widgets

ClientNext ==
    \/ CallAnalyze
    \/ CallGetDemoResponse
    \/ CallProcessSubmission

ClientSpec == ClientInit /\ [][ClientNext]_vars

\* ----------------------------------------------------------------------
\* The page with the completion call in two steps: main calls analyze and
\* waits for it (the spinner), then renders what it returned.  `last` holds
\* the calls of analyze that have not returned in its field pending
\* ----------------------------------------------------------------------

\* the calls of analyze that have not returned yet
Pending == IF "pending" \in DOMAIN last THEN last.pending ELSE << >>

\* a run of main starting while an earlier run still waits for analyze
ScriptIdle_Reentrant == TRUE

\* main is one synchronous flow: `result = client.analyze(...)` returns
\* before the run goes on, and the page handles the next event only once
\* the run is over
ScriptIdle == Pending = << >>

\* the user presses the submit button, the form accepts the fields and main
\* calls analyze
BeginAnalyze ==
    /\ ScriptIdle
    /\ session_state.usage_stats.total_reports < MaxReports
    /\ \E w \in FormWidgets(widgets.analysis_type) :
        LET ss2 == RenderSidebar(InitSessionState(session_state), widgets.mode,
                                 KeyField(session_state), SliderValues(session_state))
            prompt_type == PromptTypeOf(widgets.analysis_type)
            form_data   == RenderForm(widgets.analysis_type, ss2, "submit", w)
        IN  /\ ~IsNone(form_data)
            /\ session_state' = ss2
            /\ result' = None
            /\ last' = [op |-> "awaiting", api_key |-> ClientKey(ss2),
                        prompt_type |-> prompt_type, data |-> form_data,
                        net |-> NoNet, posts |-> << >>,
                        pending |-> Append(Pending, [prompt_type |-> prompt_type,
                                                     data |-> form_data])]
            /\ UNCHANGED widgets

\* analyze returns and main renders the result
EndAnalyze ==
    /\ Pending # << >>
    /\ \E net \in AppNet : \E now \in AppClock :
       \E m \in { ProcessSubmission(session_state, Head(Pending).prompt_type,
                                     Head(Pending).data, net, now) } :
        /\ session_state' = m.ss
        /\ result' = m.result
        /\ last' = [op |-> m.last.op, api_key |-> m.last.api_key,
                    prompt_type |-> m.last.prompt_type, data |-> m.last.data,
                    net |-> m.last.net, posts |-> m.last.posts,
                    pending |-> Tail(Pending)]
        /\ UNCHANGED widgets

\* an event of the sidebar or the preview button, handled by a run of main
SidebarOrPreview ==
    /\ ScriptIdle
    /\ (SelectMode \/ EnterApiKey \/ SelectAnalysisType \/ ChangeSettings \/ PreviewSample)

FlightNext ==
    \/ SidebarOrPreview
    \/ BeginAnalyze
    \/ EndAnalyze

FlightSpec == Init /\ [][FlightNext]_vars

\* ----------------------------------------------------------------------
\* Properties
\* ----------------------------------------------------------------------

usage_stats == session_state.usage_stats
analysis_history == session_state.analysis_history

\* the last step called analyze (from main, or directly)
Analyzed == last.op \in { "analyze", "call_analyze" }

\* the last step returned a result dict with success == True / False
Succeeded == "success" \in DOMAIN result /\ result.success
Failed == "success" \in DOMAIN result /\ ~result.success

\* C1: analyze issues no HTTP request when the credential is None, empty or
\* "demo", and returns the demo response; when demo_mode is true main builds
\* the client with "demo", so no request is issued even with a stored key.
C1_DemoCredentialNoNetwork ==
    /\ (Analyzed /\ (~Truthy(last.api_key) \/ last.api_key.s = "demo"))
        => /\ last.posts = << >>
           /\ \E now \in Clock :
                result = GetDemoResponse(last.prompt_type, last.data, now)
    /\ (last.op = "analyze" /\ session_state.demo_mode)
        => /\ last.api_key = Key("demo")
           /\ last.posts = << >>

\* main has analyzed in demo mode with a key stored in the session
C1_Witness ==
    /\ last.op = "analyze"
    /\ session_state.demo_mode
    /\ Truthy(session_state.api_key)
    /\ last.posts = << >>
    /\ Succeeded

\* C2: a step that records a successful result adds 1 to total_reports, the
\* result's cost to total_cost and its tokens_used to total_tokens; the
\* counters start at zero, so after N such steps they hold N and the sums.
C2_RecordAddsResult ==
    /\ usage_stats = [total_reports |-> 0, total_cost |-> 0, total_tokens |-> 0]
    /\ [][ (last'.op = "analyze" /\ Succeeded')
            => /\ usage_stats'.total_reports = usage_stats.total_reports + 1
               /\ usage_stats'.total_cost = usage_stats.total_cost + result'.cost
               /\ usage_stats'.total_tokens = usage_stats.total_tokens + result'.tokens_used
         ]_vars

\* two results of different cost have been recorded, the second just now
C2_Witness ==
    /\ last.op = "analyze" /\ Succeeded
    /\ usage_stats.total_reports = 2
    /\ Len(analysis_history) = 2
    /\ analysis_history[1].cost # analysis_history[2].cost
    /\ analysis_history[1].cost > 0 /\ analysis_history[2].cost > 0
    /\ usage_stats.total_cost = analysis_history[1].cost + analysis_history[2].cost

\* C3: a step whose result has success == False leaves the three counters
\* unchanged and appends nothing to analysis_history.
C3_FailureRecordsNothing ==
    [][ (last'.op = "analyze" /\ Failed')
        => /\ usage_stats' = usage_stats
           /\ analysis_history' = analysis_history
     ]_vars

\* a failed result was rendered in a session that has a report recorded
C3_Witness ==
    /\ last.op = "analyze" /\ Failed
    /\ usage_stats.total_reports = 1
    /\ usage_stats.total_tokens > 0

\* C4: in every step the three counters do not decrease, and they change
\* only in a step that records a successful result.
C4_CountersMonotone ==
    [][ /\ usage_stats'.total_reports >= usage_stats.total_reports
        /\ usage_stats'.total_cost >= usage_stats.total_cost
        /\ usage_stats'.total_tokens >= usage_stats.total_tokens
        /\ (usage_stats' # usage_stats) => (last'.op = "analyze" /\ Succeeded')
     ]_vars

\* a run that records nothing (a rerun, a preview, a rejected submission or
\* a failed analysis) in a session whose counters are not zero
C4_Witness ==
    /\ ~(last.op = "analyze" /\ Succeeded)
    /\ usage_stats.total_reports >= 1
    /\ usage_stats.total_cost > 0

\* the last step posted a request and requests.post returned a response
Responded == last.posts # << >> /\ last.net.kind = "response"

\* distance between two integers
Dist(a, b) == IF a >= b THEN a - b ELSE b - a

\* half of the last digit kept by round(cost, 4), in 1e-8 dollars
CostEpsilon == 5000

\* C5 as stated: every successful result, remote or demo, has
\* cost = tokens_used / 1_000_000 * 0.21 up to a small epsilon.
C5_CostInvariantEveryResult ==
    Succeeded => Dist(result.cost * 10000, result.tokens_used * 21) <= CostEpsilon

\* C5 amended: a successful result of the remote path has
\* cost = tokens_used / 1_000_000 * 0.21 rounded to four decimals (within
\* 0.00005); a demo result has the fixed cost 0.01 whatever its tokens_used.
C5_CostInvariantRemote ==
    Succeeded =>
        IF last.posts # << >>
        THEN Dist(result.cost * 10000, result.tokens_used * 21) <= CostEpsilon
        ELSE result.cost = 100

\* a remote result of 1200 tokens, costed 0.0003
C5_Witness ==
    /\ Analyzed /\ Succeeded /\ last.posts # << >>
    /\ result.tokens_used = 1200
    /\ result.cost = 3

\* the prompts sent by the last request
SentPrompts ==
    last.posts[1].json.messages[1].content \o last.posts[1].json.messages[2].content

\* C6: a 200 response that reports no token usage gets
\* tokens_used = len(prompt text + response text) // 4.
C6_HeuristicCountsPrompts ==
    (Responded /\ last.net.status_code = 200 /\ Succeeded
        /\ "usage" \notin DOMAIN last.net.body.json)
    => result.tokens_used = Len(SentPrompts \o result.analysis) \div 4

\* the body of the last response holds choices[0].message.content
HasContent(json) ==
    /\ "choices" \in DOMAIN json
    /\ json.choices # << >>
    /\ "message" \in DOMAIN json.choices[1]
    /\ "content" \in DOMAIN json.choices[1].message

\* C7 as stated: every 200 response gives success == True with the text of
\* choices[0].message.content, and the usage object's total as tokens_used
\* whenever the response holds a usage object.
C7_Every200Succeeds ==
    (Responded /\ last.net.status_code = 200)
    => /\ Succeeded
       /\ HasContent(last.net.body.json)
       /\ result.analysis = last.net.body.json.choices[1].message.content
       /\ "usage" \in DOMAIN last.net.body.json
            => /\ "total_tokens" \in DOMAIN last.net.body.json.usage
               /\ result.tokens_used = last.net.body.json.usage.total_tokens

\* C7 amended: a 200 response whose body is a JSON object holding
\* choices[0].message.content, and whose usage, if present, is an object,
\* gives success == True with that text; tokens_used is usage.total_tokens
\* whenever the usage object holds total_tokens.
C7_WellFormed200Succeeds ==
    (Responded /\ last.net.status_code = 200 /\ last.net.body.valid
        /\ HasContent(last.net.body.json)
        /\ ("usage" \in DOMAIN last.net.body.json => IsObject(last.net.body.json.usage)))
    => /\ Succeeded
       /\ result.analysis = last.net.body.json.choices[1].message.content
       /\ ("usage" \in DOMAIN last.net.body.json
            /\ "total_tokens" \in DOMAIN last.net.body.json.usage)
            => result.tokens_used = last.net.body.json.usage.total_tokens

\* a 200 response with usage {prompt_tokens: 310, total_tokens: 1200} was
\* turned into a result of 1200 tokens
C7_Witness ==
    /\ Responded /\ last.net.status_code = 200
    /\ last.net.body = BodyFull
    /\ Succeeded
    /\ result.tokens_used = 1200

\* C8: a response other than 200 gives success == False, the text
\* "API Error: <status> <body>", tokens_used == 0 and cost == 0; every result
\* with success == False has tokens_used == 0 and cost == 0.
C8_ErrorTextStatusAndBody ==
    /\ (Responded /\ last.net.status_code # 200)
        => /\ Failed
           /\ result.analysis =
                "API Error: " \o ToString(last.net.status_code) \o " " \o last.net.body.text
    /\ Failed => (result.tokens_used = 0 /\ result.cost = 0)

\* C9: a 401 response, whatever its body, gives success == False and a text
\* containing "401", and rendering the result leaves the counters unchanged.
C9_Unauthorized ==
    (Responded /\ last.net.status_code = 401)
    => /\ Failed
       /\ Contains(result.analysis, "401")
       /\ last.op = "analyze" => usage_stats = Defaults.usage_stats

\* requests.exceptions.Timeout and its subclasses
IsTimeout(net) ==
    net.kind = "raise" /\ net.exc.exception \in { "Timeout", "ConnectTimeout", "ReadTimeout" }

\* C10: a timeout of the POST gives success == False with the timeout
\* message; every other exception of the POST gives "Error: <exception
\* text>", and no failure other than a timeout carries the timeout message.
C10_TimeoutHasOwnMessage ==
    (Analyzed /\ last.posts # << >>)
    => /\ IsTimeout(last.net)
            => /\ Failed
               /\ result.analysis = "Request timed out. Please try again."
               /\ ~StartsWith(result.analysis, "Error: ")
       /\ (last.net.kind = "raise" /\ ~IsTimeout(last.net))
            => /\ Failed
               /\ result.analysis = "Error: " \o last.net.exc.message
       /\ (Failed /\ ~IsTimeout(last.net))
            => result.analysis # "Request timed out. Please try again."

\* the POST of the last analyze timed out while reading
C10_Witness ==
    /\ Analyzed /\ last.posts # << >>
    /\ last.net.kind = "raise" /\ last.net.exc.exception = "ReadTimeout"
    /\ Failed
    /\ result.analysis = "Request timed out. Please try again."

\* C11: an invocation of analyze issues at most one POST; after a status
\* other than 200, a timeout or a transport error exactly one request was
\* issued and the invocation has returned (no retry, no backoff).
C11_AtMostOnePost ==
    Analyzed
    => /\ Len(last.posts) <= 1
       /\ (last.net.kind = "raise" \/ (last.net.kind = "response" /\ last.net.status_code # 200))
            => (Len(last.posts) = 1 /\ Failed)

\* a request answered 500 ended the invocation after its single POST
C11_Witness ==
    /\ Analyzed /\ Failed
    /\ last.net.kind = "response" /\ last.net.status_code = 500
    /\ Len(last.posts) = 1

\* the last step called get_demo_response (directly, or from the preview
\* branch of main)
DemoCalled == last.op \in { "call_get_demo_response", "preview" }

\* C12: for every credential, request type, field mapping and outcome of the
\* POST, analyze returns a result record with a boolean success field
\* instead of raising.
C12_AnalyzeAlwaysReturns ==
    Analyzed => ("success" \in DOMAIN result /\ result.success \in BOOLEAN)

\* C13: get_demo_response returns success == True for every request type,
\* an unknown one included, and every field mapping.
C13_DemoAlwaysSucceeds ==
    DemoCalled => Succeeded

\* the request of scenario A
ScenarioA ==
    [description |-> "Worker slipped on oil patch", severity |-> "3 - Serious",
     location |-> "Plant B"]

\* success == True, a report holding "INCIDENT ANALYSIS", tokens_used > 0 and
\* cost > 0
IncidentReportReady(r) ==
    /\ "success" \in DOMAIN r /\ r.success
    /\ Contains(r.analysis, "INCIDENT ANALYSIS")
    /\ r.tokens_used > 0
    /\ r.cost > 0

\* C14: in demo mode, a valid incident request that the form accepts yields
\* success == True, a report text containing "INCIDENT ANALYSIS",
\* tokens_used > 0 and cost > 0; so do the fields of scenario A.
C14_DemoIncident ==
    (last.op = "analyze" /\ session_state.demo_mode /\ last.prompt_type = "incident")
    => /\ IncidentReportReady(result)
       /\ \A now \in Clock : IncidentReportReady(GetDemoResponse("incident", ScenarioA, now))

\* the incident form was submitted in demo mode with "Worker slipped on oil
\* patch" at "Plant B" and the report was produced
C14_Witness ==
    /\ last.op = "analyze" /\ session_state.demo_mode /\ last.prompt_type = "incident"
    /\ last.data.description = "Worker slipped on oil patch"
    /\ last.data.location = "Plant B"
    /\ last.posts = << >>
    /\ Succeeded

\* an incident form with an empty description, a description of fewer than
\* 20 characters once the blanks around it are stripped, or no location
InvalidIncident(w) ==
    \/ w.description = ""
    \/ Len(Strip(w.description)) < 20
    \/ w.location = ""

\* the step is a press of the submit button on the form filled with w
Submitted(w) ==
    /\ widgets' = widgets
    /\ last'.op \in { "rejected", "analyze" }
    /\ \E net \in (IF last'.posts = << >> THEN AppNet ELSE { last'.net }) : \E now \in AppClock :
           Run(widgets.mode, widgets.analysis_type, KeyField(session_state),
               SliderValues(session_state), "submit", w, net, now)

system_prompt == last.posts[1].json.messages[1].content
user_prompt == last.posts[1].json.messages[2].content

\* the last step built the prompts of one of the four request types
PromptsBuilt ==
    /\ Analyzed /\ last.posts # << >>
    /\ last.prompt_type \in { "incident", "audit", "policy", "esg" }

\* the fields a template shows, each with the label that precedes it
TemplateLabels(prompt_type) ==
    CASE prompt_type = "incident" ->
            [description |-> "**Incident Description:** ", severity |-> "- Severity: ",
             location |-> "- Location: ", date |-> "- Date: ", time |-> "- Time: "]
      [] prompt_type = "audit" ->
            [organization |-> "**Organization:** ", standards |-> "**Standards:** ",
             scope |-> "**Scope:** ", areas |-> "**Areas Reviewed:** ",
             findings |-> "**Findings:** "]
      [] prompt_type = "policy" ->
            [policy_name |-> "**Policy Name:** ", policy_type |-> "**Policy Type:** ",
             industry |-> "**Industry:** ", jurisdiction |-> "**Jurisdiction:** ",
             content |-> "**Policy Content:**\n"]
      [] prompt_type = "esg" ->
            [organization |-> "**Organization:** ", industry |-> "**Industry:** ",
             period |-> "**Reporting Period:** ", framework |-> "**Framework:** ",
             environmental |-> "**Environmental Data:** ", social |-> "**Social Data:** ",
             governance |-> "**Governance Data:** "]

\* the keys of a request that carry field values ("type" is the tag of the
\* request and "preview" the flag of the preview button)
SuppliedFields(data) == (DOMAIN data) \ { "type", "preview" }

\* the user prompt shows "N/A" at the place of every template field that the
\* request omits
OmittedShownAsNA ==
    LET labels == TemplateLabels(last.prompt_type)
    IN  \A f \in (DOMAIN labels) \ (DOMAIN last.data) :
            Contains(user_prompt, labels[f] \o "N/A\n")

\* the request of the last step is one a form of its type returns
FormRequest == "type" \in DOMAIN last.data /\ last.data.type = last.prompt_type

C17_EmptyStringGetsDefault ==
    (Analyzed /\ last.posts # << >>)
    => /\ system_prompt # "" /\ user_prompt # ""
       /\ PromptsBuilt
            => LET labels == TemplateLabels(last.prompt_type)
               IN  \A f \in (DOMAIN labels) \cap (DOMAIN last.data) :
                     last.data[f] = "" => Contains(user_prompt, labels[f] \o "N/A\n")

\* the last step produced a demo result
DemoResult == last.op # "rerun" /\ last.posts = << >> /\ Succeeded

\* C19 as stated: tokens_used and cost of a demo result are those of the
\* demo result of any other field mapping of the same request type.
C19_DemoTokensAndCostFixed ==
    DemoResult
    => \A d \in ClientData : \A now \in Clock :
         LET other == GetDemoResponse(last.prompt_type, d, now)
         IN  "success" \in DOMAIN other
             => /\ other.tokens_used = result.tokens_used
                /\ other.cost = result.cost

\* C19 amended: the cost of a demo result is fixed, 0.01 whatever the
\* request type and the fields; its tokens_used is len(report text) // 4,
\* which varies with the lengths of the field values shown in the report.
C19_DemoCostFixedTokensByLength ==
    DemoResult
    => /\ result.tokens_used = Len(result.analysis) \div 4
       /\ \A d \in ClientData : \A now \in Clock :
            LET other == GetDemoResponse(last.prompt_type, d, now)
            IN  "success" \in DOMAIN other => other.cost = result.cost
       /\ result.cost = 100

\* the demo report of scenario A, whose token count is not that of the
\* report of a request without fields
C19_Witness ==
    /\ DemoResult /\ last.prompt_type = "incident" /\ last.data = ScenarioA
    /\ \E now \in Clock :
         result.tokens_used # GetDemoResponse("incident", EmptyDict, now).tokens_used

\* the fields a form requires are filled in
ValidForm(w) ==
    CASE PromptTypeOf(widgets.analysis_type) = "incident" -> ~InvalidIncident(w)
      [] PromptTypeOf(widgets.analysis_type) = "audit"    -> w.organization # ""
      [] PromptTypeOf(widgets.analysis_type) = "policy"   ->
            w.policy_name # "" /\ Len(Strip(w.content)) >= 50
      [] PromptTypeOf(widgets.analysis_type) = "esg"      -> w.organization # ""

\* demo mode, or API mode with a stored key
CredentialPresent == session_state.demo_mode \/ Truthy(session_state.api_key)

\* the states of an interaction, read from the last run of the page: the
\* form is shown (CollectingFields) unless the run ended a completion
Phase ==
    IF last.op = "analyze"
    THEN IF Succeeded THEN "ReportReady" ELSE IF Failed THEN "Failed" ELSE "Crashed"
    ELSE "CollectingFields"

\* C20: a completion call is started only by a press of the submit button
\* on a form that passes the checks (Confirming); every started completion
\* ends in exactly one of ReportReady and Failed; after either, the page
\* collects fields again: a further completion needs a new accepted submit,
\* and any other run shows the form without calling the client.
C20_InteractionStateMachine ==
    [][ /\ last'.op = "analyze"
            => /\ CredentialPresent
               /\ \E w \in FormWidgets(widgets.analysis_type) :
                    /\ ValidForm(w)
                    /\ RenderForm(widgets.analysis_type, session_state, "submit", w) = last'.data
                    /\ Submitted(w)
               /\ Phase' \in { "ReportReady", "Failed" }
               /\ ~(Succeeded' /\ Failed')
        /\ (Phase \in { "ReportReady", "Failed" } /\ last'.op # "analyze")
            => /\ Phase' = "CollectingFields"
               /\ last'.posts = << >>
               /\ usage_stats' = usage_stats ]_vars

\* a second completion, started from the form after the first one had ended
C20_Witness ==
    /\ Phase = "ReportReady"
    /\ usage_stats.total_reports = 2
    /\ Len(analysis_history) = 2

Resubmitted ==
    /\ last.op = "analyze" /\ last.posts # << >>
    /\ last'.op = "analyze"
    /\ last'.prompt_type = last.prompt_type
    /\ last'.data = last.data
    /\ last'.api_key = last.api_key

\* C22: a submission that repeats the one before it, failed or not, issues
\* a POST of its own with the same request; its result is that of its own
\* POST, not the earlier result; and when it succeeds it is recorded as one
\* more report.
C22_NoDeduplication ==
    [][ Resubmitted
        => /\ Len(last'.posts) = 1
           /\ last'.posts[1].json.messages = last.posts[1].json.messages
           /\ last'.net.kind = "raise" => Failed'
           /\ (last'.net.kind = "response" /\ last'.net.status_code # 200) => Failed'
           /\ last'.net = Response(200, BodyFull)
                => (Succeeded' /\ result'.tokens_used = 1200)
           /\ Succeeded'
                => /\ usage_stats'.total_reports = usage_stats.total_reports + 1
                   /\ Len(analysis_history') = Len(analysis_history) + 1 ]_vars

\* two equal submissions to the endpoint succeeded and each has its own
\* entry in the history
C22_Witness ==
    /\ last.op = "analyze" /\ last.posts # << >> /\ Succeeded
    /\ usage_stats.total_reports = 2
    /\ Len(analysis_history) = 2
    /\ analysis_history[1] = analysis_history[2]
    /\ analysis_history[2].model = "deepseek-chat-v3"

\* the status code a 429 is compared with, and a 500
OtherStatus(status_code) == IF status_code = 429 THEN 500 ELSE 429

\* C23: a 429 and a 500 response with the same body are handled alike: the
\* results agree on success (False), tokens_used (0), cost (0) and model,
\* the text displays the status, and no further request is issued.
C23_RateLimitLikeServerError ==
    (Responded /\ last.net.status_code \in { 429, 500 })
    => /\ Failed
       /\ result.tokens_used = 0 /\ result.cost = 0
       /\ Contains(result.analysis, ToString(last.net.status_code))
       /\ Len(last.posts) = 1
       /\ \A now \in Clock :
            LET other == OnOutcome(Response(OtherStatus(last.net.status_code),
                                            last.net.body), now)
            IN  /\ other.success = result.success
                /\ other.tokens_used = result.tokens_used
                /\ other.cost = result.cost
                /\ other.model = result.model

\* analyze was called with a credential that is neither absent, empty nor
\* "demo"
RealCredential == Analyzed /\ Truthy(last.api_key) /\ last.api_key.s # "demo"

\* one POST to the base URL plus "/chat/completions", with the bearer header
\* and the two messages, system prompt first
OnePostWithTwoMessages ==
    /\ Len(last.posts) = 1
    /\ last.posts[1].url = "https://api.deepseek.com/chat/completions"
    /\ last.posts[1].headers.Authorization = "Bearer " \o last.api_key.s
    /\ Len(last.posts[1].json.messages) = 2
    /\ last.posts[1].json.messages[1] =
            [role |-> "system", content |-> GetSystemPrompt(last.prompt_type)]
    /\ last.posts[1].json.messages[2] =
            [role |-> "user", content |-> GetUserPrompt(last.prompt_type, last.data)]
    /\ last.posts[1].json.max_tokens = session_state.settings.max_tokens
    /\ last.posts[1].json.temperature = session_state.settings.temperature

\* C24 as stated: the JSON body holds model, messages, max_tokens,
\* temperature and stream: false.
C24_PostWithStreamFalse ==
    RealCredential
    => /\ OnePostWithTwoMessages
       /\ DOMAIN last.posts[1].json =
            { "model", "messages", "max_tokens", "temperature", "stream" }
       /\ last.posts[1].json.stream = FALSE

\* C24 amended: with a real credential analyze issues one POST to the base
\* URL plus "/chat/completions" with the header "Authorization: Bearer
\* <credential>" and a JSON body of model, messages (the system prompt, then
\* the user prompt), max_tokens and temperature; the body has no stream key.
C24_PostWithoutStreamKey ==
    RealCredential
    => /\ OnePostWithTwoMessages
       /\ DOMAIN last.posts[1].json = { "model", "messages", "max_tokens", "temperature" }
       /\ last.posts[1].json.model = "deepseek-chat"

\* a request for an audit report was posted with the key sk-4f9a1c
C24_Witness ==
    /\ RealCredential /\ last.prompt_type = "audit"
    /\ Len(last.posts) = 1
    /\ last.posts[1].headers.Authorization = "Bearer sk-4f9a1c"
    /\ StartsWith(last.posts[1].json.messages[2].content, "COMPLIANCE AUDIT REQUEST")

\* the sum of the field of the entries of the history
RECURSIVE SumOf(_, _)
SumOf(history, field) ==
    IF history = << >> THEN 0
    ELSE history[1][field] + SumOf(Tail(history), field)

\* C25: the history has one entry per counted report, the token and cost
\* counters are the sums of the entries' tokens and costs, and an entry is
\* appended in exactly the steps that increment the counters.
C25_HistoryMatchesCounters ==
    /\ [](/\ Len(analysis_history) = usage_stats.total_reports
          /\ usage_stats.total_tokens = SumOf(analysis_history, "tokens")
          /\ usage_stats.total_cost = SumOf(analysis_history, "cost"))
    /\ [][ (Len(analysis_history') = Len(analysis_history) + 1)
            <=> (usage_stats'.total_reports = usage_stats.total_reports + 1) ]_vars
    /\ [][ Len(analysis_history') \in { Len(analysis_history), Len(analysis_history) + 1 } ]_vars

\* a demo report and a report of the endpoint, both counted and both in the
\* history
C25_Witness ==
    /\ usage_stats.total_reports = 2
    /\ Len(analysis_history) = 2
    /\ usage_stats.total_cost = 103
    /\ { analysis_history[1].model, analysis_history[2].model }
            = { "deepseek-chat-demo", "deepseek-chat-v3" }

\* C26: a press of "Preview Sample", on any form, in either mode and with
\* or without a stored key, is never rejected (the form returns the preview
\* request whatever the session and the fields hold); the run that handles
\* it produces a demo response without a request to the endpoint and leaves
\* the usage counters, the history and the stored API key unchanged.
C26_PreviewLeavesSessionAlone ==
    /\ [](\A t \in AnalysisTypeLabels : \A w \in FormWidgets(t) \cup { EmptyDict } :
            RenderForm(t, session_state, "preview", w) = [preview |-> TRUE])
    /\ [][ last'.op = "preview"
            => /\ Succeeded'
               /\ result'.model = "deepseek-chat-demo"
               /\ last'.posts = << >>
               /\ usage_stats' = usage_stats
               /\ analysis_history' = analysis_history
               /\ session_state'.api_key = session_state.api_key ]_vars

\* a preview of the policy form in API mode, with no key stored
C26_Witness ==
    /\ last.op = "preview" /\ last.prompt_type = "policy"
    /\ ~session_state.demo_mode /\ ~Truthy(session_state.api_key)
    /\ Succeeded

\* C27: in API mode with no stored credential, a press of the submit button
\* of any of the four forms, whatever the fields hold, is rejected: neither
\* get_demo_response nor the endpoint is called and the session state is
\* unchanged.
C27_NoCredentialRejected ==
    [][ (widgets.mode = ApiModeLabel /\ ~Truthy(session_state.api_key) /\ GenerateAnalysis)
        => /\ last'.op = "rejected"
           /\ result' = None
           /\ last'.posts = << >>
           /\ session_state' = session_state ]_vars

\* the ESG form was submitted in API mode without a key and rejected
C27_Witness ==
    /\ last.op = "rejected" /\ last.prompt_type = "esg"
    /\ widgets.mode = ApiModeLabel
    /\ ~session_state.demo_mode /\ ~Truthy(session_state.api_key)
    /\ result = None

\* C28: a stored non-empty API key is never cleared, whatever the step
\* (switch of mode, emptied key field, preview, failed or successful
\* submission); it changes only when another non-empty key is entered in
\* API mode.
C28_StoredKeyNeverCleared ==
    [][ Truthy(session_state.api_key)
        => /\ Truthy(session_state'.api_key)
           /\ session_state'.api_key # session_state.api_key
                => /\ EnterApiKey
                   /\ widgets.mode = ApiModeLabel
                   /\ session_state'.api_key.s \in KeyInputs \ { "" } ]_vars

\* the key sk-4f9a1c is still stored after a switch to demo mode and a
\* report
C28_Witness ==
    /\ session_state.api_key = Key("sk-4f9a1c")
    /\ session_state.demo_mode
    /\ last.op = "analyze" /\ Succeeded
    /\ usage_stats.total_reports = 1

\* the counters and the history are left as they were
NothingRecorded ==
    /\ usage_stats' = usage_stats
    /\ analysis_history' = analysis_history

\* at most one report is added to the counters and to the history
AtMostOneRecorded ==
    /\ usage_stats'.total_reports - usage_stats.total_reports \in { 0, 1 }
    /\ Len(analysis_history') - Len(analysis_history) \in { 0, 1 }
    /\ SubSeq(analysis_history', 1, Len(analysis_history)) = analysis_history

\* C29: a run in which neither button was pressed (a change in the
\* sidebar) calls neither analyze nor get_demo_response and changes neither
\* counters nor history; a press of the submit button leads to at most one
\* call of analyze, at most one POST and at most one update of the counters
\* and the history.
C29_OnlySubmitCallsAnalyze ==
    /\ [][ (SelectMode \/ EnterApiKey \/ SelectAnalysisType \/ ChangeSettings)
            => (last'.op = "rerun" /\ result' = None /\ last'.posts = << >>
                /\ NothingRecorded) ]_vars
    /\ [][ last'.op = "rerun" => NothingRecorded ]_vars
    /\ [][ last'.op \in { "rejected", "analyze" }
            => (Len(last'.posts) <= 1 /\ AtMostOneRecorded) ]_vars
    /\ [][ ~NothingRecorded => last'.op = "analyze" ]_vars

\* after a counted report, a change in the sidebar reran the page: no call,
\* and the report is still counted once
C29_Witness ==
    /\ last.op = "rerun" /\ result = None
    /\ usage_stats.total_reports = 1
    /\ Len(analysis_history) = 1

\* the last step returned a successful result of the endpoint
RemoteSuccess == last.op \in { "analyze", "call_analyze" } /\ last.posts # << >> /\ Succeeded

\* round(tokens_used * 0.21 / 1_000_000, 4) in 1e-4 dollars, as the
\* expression evaluates in doubles: of the halfway values of up to 100000
\* tokens it takes those of 5000, 35000, 55000 and 95000 tokens down
RoundOfProductFirst(tokens) ==
    IF tokens \in { 5000, 35000, 55000, 95000 }
    THEN (tokens * 21) \div 10000
    ELSE (tokens * 21 + 5000) \div 10000

\* the cost of every token count up to MaxTokenCount, and around the halfway
\* values 5000 and 15000, is not negative and does not decrease as the count
\* grows, and is 0.0 up to 238 tokens
CostShape ==
    \A t \in (0..MaxTokenCount) \cup (4998..5001) \cup (14998..15001) :
        /\ Round4(RawCost(t)) >= 0
        /\ Round4(RawCost(t)) <= Round4(RawCost(t + 1))
        /\ t <= 238 => Round4(RawCost(t)) = 0

\* C30 as stated: for a successful remote result
\* cost == round(tokens_used * 0.21 / 1_000_000, 4); the cost is never
\* negative, non-decreasing in tokens_used and 0.0 up to 238 tokens.
C30_CostIsRoundOfProductFirst ==
    /\ RemoteSuccess => result.cost = RoundOfProductFirst(result.tokens_used)
    /\ CostShape

\* C30 amended: for a successful remote result cost is
\* round((tokens_used / 1_000_000) * 0.21, 4): the multiple of 0.0001 nearest
\* to tokens_used * 0.21 / 1_000_000, and at a value halfway between two
\* multiples either of them; the cost is never negative, non-decreasing in
\* tokens_used and 0.0 up to 238 tokens.
C30_CostIsNearestMultiple ==
    /\ RemoteSuccess
        => /\ Dist(result.cost * 10000, result.tokens_used * 21) <= 5000
           /\ (result.tokens_used * 21) % 10000 # 5000
                => result.cost = (result.tokens_used * 21 + 5000) \div 10000
           /\ result.tokens_used <= 238 => result.cost = 0
    /\ CostShape

\* a successful answer of the endpoint for 238 tokens was counted as a
\* report at no cost
C30_Witness ==
    /\ last.op = "analyze" /\ RemoteSuccess
    /\ result.tokens_used = 238 /\ result.cost = 0
    /\ usage_stats.total_reports = 1
    /\ usage_stats.total_cost = 0
    /\ usage_stats.total_tokens = 238

====
